---- MODULE Spec2Model ----
(***************************************************************************)
(* Model of the ArcGIS maintenance scripts:                                *)
(*   - src/src/version_management/DeleteStaleVersions.py                   *)
(*       get_version_details, filter_stale_versions,                       *)
(*       order_versions_for_deletion, has_non_stale_children,              *)
(*       delete_version, process_database                                  *)
(*   - src/scripts/MaintenanceOrchestrator.py                              *)
(*       SCRIPT_SEQUENCE, check_config_available, run_module, run_script,  *)
(*       run_maintenance_sequence, format_summary, main                    *)
(*   - src/src/version_management/ManageConnections.py                     *)
(*       set_accept_connections, get_connection_count, block_and_wait,     *)
(*       process_database, main                                            *)
(*   - src/CompressRebuildAnalyze.py and                                   *)
(*     src/src/database_maintenance/CompressRebuildAnalyze.py              *)
(*       process_database, main                                            *)
(*   - src/src/data_integrity/RepairGeometry.py                            *)
(*       run_check_geometry, check_geometry, repair_geometry,              *)
(*       repair_geometry_versioned, process_feature_class                  *)
(*   - src/src/connection_management/DisconnectUsers.py                    *)
(*       get_connected_users, disconnect_user, disconnect_all              *)
(* Python strings are sequences of one-character strings, so that lower(), *)
(* upper(), the "in" substring test and f-string concatenation are         *)
(* computed rather than assumed.                                           *)
(***************************************************************************)
EXTENDS Integers, Sequences, FiniteSets, TLC

VARIABLES
    db,               \* rows of dbo.SDE_versions (name, owner, parent_name, parent_owner, age_days)
    versions,         \* process_database: versions / the function's input list
    stale,            \* process_database: stale (list of version dicts)
    stale_names,      \* process_database: stale_names (set of names, built once)
    todo,             \* process_database: what is left of the copy stale[:] being iterated
    remaining,        \* order_versions_for_deletion: remaining (set of names)
    ordered,          \* order_versions_for_deletion: ordered (list of version dicts)
    calls,            \* delete_version calls issued so far: <<version_name, result>>
    deleted,          \* process_database: deleted (counter)
    ret,              \* value returned by the function under way, NoValue before
    max_age_days,     \* VERSION_MAX_AGE_DAYS
    exclude_patterns, \* VERSION_EXCLUDE_PATTERNS (list of strings)
    pc,               \* position in the code of the function under way
    steps,            \* run_maintenance_sequence: argument steps (None or a list of names)
    skip_steps,       \* run_maintenance_sequence: argument skip_steps
    env,              \* os.environ restricted to the configuration variables
    idx,              \* index in SCRIPT_SEQUENCE of the step the for loop is at
    results,          \* run_maintenance_sequence: the dict results
    launched,         \* names of the steps for which subprocess.run was called, in order
    opc,              \* position in run_maintenance_sequence
    mpc,              \* position in the maintenance script under way (the scripts the steps launch)
    loc,              \* that script: its arguments and local variables, by their names
    world,            \* that script: the edit sessions of the geodatabase (editors created, open, saved)
    trace,            \* that script: the arcpy calls made so far, with their outcomes
    mret              \* that script: the value returned, or the exit code of its process

vvars == <<db, versions, stale, stale_names, todo, remaining, ordered, calls,
           deleted, ret, max_age_days, exclude_patterns, pc>>

ovars == <<steps, skip_steps, env, idx, results, launched, opc>>

mvars == <<mpc, loc, world, trace, mret>>

vars == <<vvars, ovars, mvars>>

----------------------------------------------------------------------------
(* Bounds of the model *)

MaxRows == 3

\* largest number of versions handed to filter_stale_versions called on its own
MaxFilterRows == 2

\* largest number of names in the argument steps
MaxSelected == 1

\* largest number of departures from the nominal run (every step run, exit
\* code 0, a duration that does not round to 0.0): names in skip_steps,
\* configuration variables unset or empty, steps that fail or take no time
MaxDeviations == 2

\* largest number of .sde connection files in SDE_CONNECTION_DIR
MaxDatabases == 2

\* largest number of connections arcpy.ListUsers reports
MaxConnections == 2

\* largest number of connections disconnect_all finds
MaxUsers == 3

\* round(duration, 1) in tenths of a second: 0.0, or a positive value
DurationChoices == {0, 12}

----------------------------------------------------------------------------
(* Python values *)

\* Python's None; a one-element sequence no string of the model equals
None == <<"None">>

\* no value returned yet
NoValue == [kind |-> "none"]

\* no maintenance script is under way
IdleScripts ==
    /\ mpc = "idle"
    /\ loc = NoValue
    /\ world = NoValue
    /\ trace = << >>
    /\ mret = NoValue

\* a returned list
ListValue(items) == [kind |-> "list", items |-> items]

EmptyStr == << >>

DEFAULT == <<"D", "E", "F", "A", "U", "L", "T">>

DOT == <<".">>

\* truthiness of an optional string: None and '' are falsy
Truthy(s) == s # None /\ s # EmptyStr

Range(f) == {f[i] : i \in DOMAIN f}

\* the orders in which iterating a Python set may yield its elements
Perms(S) == {f \in [1..Cardinality(S) -> S] : \A i, j \in 1..Cardinality(S) : f[i] = f[j] => i = j}

\* the sequences without repetition of at most n elements of S
RECURSIVE InjSeqs(_, _)
InjSeqs(S, n) ==
    IF n = 0 THEN {<< >>}
    ELSE LET shorter == InjSeqs(S, n - 1)
         IN  shorter \cup {Append(q[1], q[2]) :
                              q \in {r \in shorter \X S : Len(r[1]) = n - 1 /\ r[2] \notin Range(r[1])}}

----------------------------------------------------------------------------
(* src/src/version_management/DeleteStaleVersions.py: order_versions_for_deletion *)

NamesOf(vs) == {vs[i].name : i \in DOMAIN vs}

\* version_map = {v['name']: v for v in versions}: a later entry replaces an earlier one
version_map(vs) ==
    [n \in NamesOf(vs) |->
        vs[CHOOSE i \in DOMAIN vs : vs[i].name = n /\ \A j \in DOMAIN vs : vs[j].name = n => j <= i]]

\* children[parent].append(v['name']) for every v whose parent is truthy and a key of children
children(vs) ==
    [n \in NamesOf(vs) |->
        {vs[i].name : i \in {j \in DOMAIN vs : Truthy(vs[j].parent) /\ vs[j].parent = n}}]

\* the test looks at the parent instead of the children
leaves_RootsFirst(vs, rem) == {n \in rem : version_map(vs)[n].parent \notin rem}

\* leaves = [name for name in remaining if all(child not in remaining for child in children[name])]
leaves(vs, rem) == {n \in rem : \A c \in children(vs)[n] : c \notin rem}

\* version_names = ...; ordered = []; remaining = set(version_names)
OrderEnter ==
    /\ pc = "order_call"
    /\ remaining' = NamesOf(stale)
    /\ ordered' = << >>
    /\ pc' = "order_loop"
    /\ UNCHANGED <<db, versions, stale, stale_names, todo, calls, deleted, ret,
                   max_age_days, exclude_patterns>>
    /\ UNCHANGED <<ovars, mvars>>

\* a round appends one of its leaves only, and drops them all from remaining
OrderRound_OneLeaf ==
    /\ pc = "order_loop"
    /\ remaining # {}
    /\ leaves(stale, remaining) # {}
    /\ \E n \in leaves(stale, remaining) :
          ordered' = Append(ordered, version_map(stale)[n])
    /\ remaining' = remaining \ leaves(stale, remaining)
    /\ UNCHANGED <<db, versions, stale, stale_names, todo, calls, deleted, ret,
                   max_age_days, exclude_patterns, pc>>
    /\ UNCHANGED <<ovars, mvars>>

\* one round of "while remaining:" that finds leaves; the list comprehension
\* iterates the set remaining, whose iteration order is not fixed by the language
OrderRound ==
    /\ pc = "order_loop"
    /\ remaining # {}
    /\ leaves(stale, remaining) # {}
    /\ \E p \in Perms(leaves(stale, remaining)) :
          ordered' = ordered \o [i \in DOMAIN p |-> version_map(stale)[p[i]]]
    /\ remaining' = remaining \ leaves(stale, remaining)
    /\ UNCHANGED <<db, versions, stale, stale_names, todo, calls, deleted, ret,
                   max_age_days, exclude_patterns, pc>>
    /\ UNCHANGED <<ovars, mvars>>

\* the fallback leaves the loop without appending the remaining versions
OrderFallback_NoExtend ==
    /\ pc = "order_loop"
    /\ remaining # {}
    /\ leaves(stale, remaining) = {}
    /\ pc' = "order_ret"
    /\ ret' = ListValue(ordered)
    /\ UNCHANGED <<db, versions, stale, stale_names, todo, remaining, ordered, calls, deleted,
                   max_age_days, exclude_patterns>>
    /\ UNCHANGED <<ovars, mvars>>

\* the fallback appends the remaining versions and does not leave the loop
OrderFallback_NoBreak ==
    /\ pc = "order_loop"
    /\ remaining # {}
    /\ leaves(stale, remaining) = {}
    /\ \E p \in Perms(remaining) :
          ordered' = ordered \o [i \in DOMAIN p |-> version_map(stale)[p[i]]]
    /\ UNCHANGED <<db, versions, stale, stale_names, todo, remaining, calls, deleted, ret,
                   max_age_days, exclude_patterns, pc>>
    /\ UNCHANGED <<ovars, mvars>>

\* "if not leaves:" ordered.extend(version_map[name] for name in remaining); break
OrderFallback ==
    /\ pc = "order_loop"
    /\ remaining # {}
    /\ leaves(stale, remaining) = {}
    /\ \E p \in Perms(remaining) :
          ordered' = ordered \o [i \in DOMAIN p |-> version_map(stale)[p[i]]]
    /\ pc' = "order_ret"
    /\ ret' = ListValue(ordered')
    /\ UNCHANGED <<db, versions, stale, stale_names, todo, remaining, calls, deleted,
                   max_age_days, exclude_patterns>>
    /\ UNCHANGED <<ovars, mvars>>

\* the loop condition "while remaining" fails: return ordered
OrderReturn ==
    /\ pc = "order_loop"
    /\ remaining = {}
    /\ pc' = "order_ret"
    /\ ret' = ListValue(ordered)
    /\ UNCHANGED <<db, versions, stale, stale_names, todo, remaining, ordered, calls,
                   deleted, max_age_days, exclude_patterns>>
    /\ UNCHANGED <<ovars, mvars>>

----------------------------------------------------------------------------
(* order_versions_for_deletion called on its own, on every list of at most *)
(* MaxRows versions with unique names; parents are arbitrary (cycles,      *)
(* self-parents, dangling names, DEFAULT, None).                           *)

Owners == {<<"a">>, <<"B">>}

ShortNames == {<<"x">>, <<"Y">>}

\* f"{owner}.{name}"
QName(owner, name) == owner \o DOT \o name

FullNames == {QName(o, n) : o \in Owners, n \in ShortNames}

MkVersions(par, q) == [i \in DOMAIN q |-> [name |-> q[i], parent |-> par[i], age_days |-> 0]]

InitOrder ==
    /\ \E q \in InjSeqs(FullNames, MaxRows) :
          \E par \in [DOMAIN q -> FullNames \cup {DEFAULT, None}] : stale = MkVersions(par, q)
    /\ versions = stale
    /\ db = << >>
    /\ stale_names = {}
    /\ todo = << >>
    /\ remaining = {}
    /\ ordered = << >>
    /\ calls = << >>
    /\ deleted = 0
    /\ ret = NoValue
    /\ max_age_days = 0
    /\ exclude_patterns = << >>
    /\ pc = "order_call"
    /\ steps = NoValue
    /\ skip_steps = NoValue
    /\ env = << >>
    /\ idx = 0
    /\ results = NoValue
    /\ launched = << >>
    /\ opc = "idle"
    /\ IdleScripts

NextOrder == OrderEnter \/ OrderRound \/ OrderFallback \/ OrderReturn

SpecOrder == InitOrder /\ [][NextOrder]_vars

----------------------------------------------------------------------------
(* src/src/version_management/DeleteStaleVersions.py: get_version_details *)

UpperChar(c) ==
    CASE c = "a" -> "A" [] c = "b" -> "B" [] c = "d" -> "D" [] c = "e" -> "E"
      [] c = "f" -> "F" [] c = "l" -> "L" [] c = "o" -> "O" [] c = "t" -> "T"
      [] c = "u" -> "U" [] c = "x" -> "X" [] c = "y" -> "Y" [] OTHER -> c

LowerChar(c) ==
    CASE c = "A" -> "a" [] c = "B" -> "b" [] c = "D" -> "d" [] c = "E" -> "e"
      [] c = "F" -> "f" [] c = "L" -> "l" [] c = "O" -> "o" [] c = "T" -> "t"
      [] c = "U" -> "u" [] c = "X" -> "x" [] c = "Y" -> "y" [] OTHER -> c

\* str.upper()
Upper(s) == [i \in DOMAIN s |-> UpperChar(s[i])]

\* str.lower()
Lower(s) == [i \in DOMAIN s |-> LowerChar(s[i])]

\* the dict built for one row of the SQL listing; 'owner' and 'created' are
\* stored and never read afterwards, and are left out
VersionOfRow(row) ==
    LET owner == IF row.owner # None /\ row.owner # EmptyStr THEN row.owner ELSE EmptyStr
        parent_raw == row.parent_name
        parent == IF Truthy(parent_raw) /\ Upper(parent_raw) # DEFAULT
                  THEN (IF owner # EmptyStr THEN QName(owner, parent_raw) ELSE parent_raw)
                  ELSE parent_raw
    IN  [name |-> IF owner # EmptyStr THEN QName(owner, row.name) ELSE row.name,
         parent |-> parent,
         age_days |-> row.age_days]

\* SELECT ... FROM dbo.SDE_versions WHERE name != 'DEFAULT'
SqlListing(table) ==
    LET NotDefault(row) == row.name # DEFAULT
    IN  SelectSeq(table, NotDefault)

\* get_version_details when execute_sql returns the rows
get_version_details(table) ==
    LET rows == SqlListing(table)
    IN  [i \in DOMAIN rows |-> VersionOfRow(rows[i])]

----------------------------------------------------------------------------
(* get_version_details_arcpy: the fallback listing through arcpy.da.ListVersions *)

DBO == <<"d", "b", "o">>

\* version.name and version.parentVersionName are owner-qualified
ArcpyVersionOfRow(row) ==
    [name |-> QName(row.owner, row.name),
     parent |-> QName(row.parent_owner, row.parent_name),
     age_days |-> row.age_days]

MaxOfSet(S) == CHOOSE m \in S : \A x \in S : x <= m

\* sorted(versions, key=lambda x: x['age_days'], reverse=True): a stable sort
RECURSIVE SortedByAgeDesc(_)
SortedByAgeDesc(vs) ==
    IF vs = << >> THEN << >>
    ELSE LET m == MaxOfSet({vs[i].age_days : i \in DOMAIN vs})
             IsMax(v) == v.age_days = m
             NotMax(v) == v.age_days # m
         IN  SelectSeq(vs, IsMax) \o SortedByAgeDesc(SelectSeq(vs, NotMax))

get_version_details_arcpy(table) ==
    LET NotDefault(row) == Upper(QName(row.owner, row.name)) # QName(Upper(DBO), DEFAULT)
        listed == SelectSeq(table, NotDefault)
    IN  SortedByAgeDesc([i \in DOMAIN listed |-> ArcpyVersionOfRow(listed[i])])

----------------------------------------------------------------------------
(* filter_stale_versions *)

\* Python's "p in s" for strings: p occurs in s as a contiguous substring
StrIn(p, s) ==
    \E k \in 0..(Len(s) - Len(p)) : SubSeq(s, k + 1, k + Len(p)) = p

\* the pattern is compared without being lowered: "p in version_name_lower"
is_stale_and_not_excluded_NoLower(version, max_age, patterns) ==
    IF version.age_days < max_age THEN FALSE
    ELSE LET version_name_lower == Lower(version.name)
         IN  ~ \E i \in DOMAIN patterns : StrIn(patterns[i], version_name_lower)

is_stale_and_not_excluded(version, max_age, patterns) ==
    IF version.age_days < max_age THEN FALSE
    ELSE LET version_name_lower == Lower(version.name)
         IN  ~ \E i \in DOMAIN patterns : StrIn(Lower(patterns[i]), version_name_lower)

filter_stale_versions(vs, max_age, patterns) ==
    LET Keep(v) == is_stale_and_not_excluded(v, max_age, patterns)
    IN  SelectSeq(vs, Keep)

----------------------------------------------------------------------------
(* has_non_stale_children and process_database *)

\* the membership test is inverted: "in stale_names"
has_non_stale_children_InStale(version_name, names, all_versions) ==
    \E i \in DOMAIN all_versions :
        all_versions[i].parent = version_name /\ all_versions[i].name \in names

has_non_stale_children(version_name, names, all_versions) ==
    \E i \in DOMAIN all_versions :
        all_versions[i].parent = version_name /\ all_versions[i].name \notin names

\* list.remove(v): removes the first element equal to v
RemoveFirst(seq, v) ==
    IF \E i \in DOMAIN seq : seq[i] = v
    THEN LET k == CHOOSE i \in DOMAIN seq : seq[i] = v /\ \A j \in 1..(i - 1) : seq[j] # v
         IN  SubSeq(seq, 1, k - 1) \o SubSeq(seq, k + 1, Len(seq))
    ELSE seq

Summary(n_deleted, n_skipped) == [kind |-> "summary", deleted |-> n_deleted, skipped |-> n_skipped]

\* versions = get_version_details(database_path), the SQL listing succeeding;
\* "if not versions": return the empty summary
ListVersionsSql ==
    /\ pc = "start"
    /\ versions' = get_version_details(db)
    /\ IF versions' = << >>
       THEN pc' = "done" /\ ret' = Summary(0, 0)
       ELSE pc' = "filter" /\ ret' = ret
    /\ UNCHANGED <<db, stale, stale_names, todo, remaining, ordered, calls, deleted,
                   max_age_days, exclude_patterns>>
    /\ UNCHANGED <<ovars, mvars>>

\* the SQL listing raises and get_version_details falls back to arcpy
ListVersionsArcpy ==
    /\ pc = "start"
    /\ versions' = get_version_details_arcpy(db)
    /\ IF versions' = << >>
       THEN pc' = "done" /\ ret' = Summary(0, 0)
       ELSE pc' = "filter" /\ ret' = ret
    /\ UNCHANGED <<db, stale, stale_names, todo, remaining, ordered, calls, deleted,
                   max_age_days, exclude_patterns>>
    /\ UNCHANGED <<ovars, mvars>>

\* stale = filter_stale_versions(...); "if not stale": return;
\* stale_names = {v['name'] for v in stale}; the loop iterates the copy stale[:]
FilterStale ==
    /\ pc = "filter"
    /\ stale' = filter_stale_versions(versions, max_age_days, exclude_patterns)
    /\ IF stale' = << >>
       THEN pc' = "done" /\ ret' = Summary(0, 0) /\ UNCHANGED <<stale_names, todo>>
       ELSE pc' = "protect" /\ ret' = ret /\ stale_names' = NamesOf(stale') /\ todo' = stale'
    /\ UNCHANGED <<db, versions, remaining, ordered, calls, deleted,
                   max_age_days, exclude_patterns>>
    /\ UNCHANGED <<ovars, mvars>>

\* one iteration of "for v in stale[:]": stale.remove(v) if v has a child outside stale_names
ProtectStep ==
    /\ pc = "protect"
    /\ todo # << >>
    /\ stale' = IF has_non_stale_children(Head(todo).name, stale_names, versions)
                THEN RemoveFirst(stale, Head(todo))
                ELSE stale
    /\ todo' = Tail(todo)
    /\ UNCHANGED <<db, versions, stale_names, remaining, ordered, calls, deleted, ret,
                   max_age_days, exclude_patterns, pc>>
    /\ UNCHANGED <<ovars, mvars>>

\* the loop is over; "if not stale": return, else call order_versions_for_deletion(stale)
ProtectDone ==
    /\ pc = "protect"
    /\ todo = << >>
    /\ IF stale = << >>
       THEN pc' = "done" /\ ret' = Summary(0, 0)
       ELSE pc' = "order_call" /\ ret' = ret
    /\ UNCHANGED <<db, versions, stale, stale_names, todo, remaining, ordered, calls,
                   deleted, max_age_days, exclude_patterns>>
    /\ UNCHANGED <<ovars, mvars>>

\* stale = order_versions_for_deletion(stale); deleted = 0; the loop iterates stale
PlanAssigned ==
    /\ pc = "order_ret"
    /\ stale' = ret.items
    /\ todo' = ret.items
    /\ deleted' = 0
    /\ ret' = NoValue
    /\ pc' = "delete"
    /\ UNCHANGED <<db, versions, stale_names, remaining, ordered, calls,
                   max_age_days, exclude_patterns>>
    /\ UNCHANGED <<ovars, mvars>>

\* the loop stops at the first deletion that fails
DeleteStep_StopOnFailure ==
    /\ pc = "delete"
    /\ todo # << >>
    /\ \E ok \in BOOLEAN :
          /\ calls' = Append(calls, <<Head(todo).name, ok>>)
          /\ deleted' = IF ok THEN deleted + 1 ELSE deleted
          /\ todo' = IF ok THEN Tail(todo) ELSE << >>
    /\ UNCHANGED <<db, versions, stale, stale_names, remaining, ordered, ret,
                   max_age_days, exclude_patterns, pc>>
    /\ UNCHANGED <<ovars, mvars>>

\* one iteration of "for version in stale": delete_version returns True, or False
\* when arcpy raises ExecuteError
DeleteStep ==
    /\ pc = "delete"
    /\ todo # << >>
    /\ \E ok \in BOOLEAN :
          /\ calls' = Append(calls, <<Head(todo).name, ok>>)
          /\ deleted' = IF ok THEN deleted + 1 ELSE deleted
    /\ todo' = Tail(todo)
    /\ UNCHANGED <<db, versions, stale, stale_names, remaining, ordered, ret,
                   max_age_days, exclude_patterns, pc>>
    /\ UNCHANGED <<ovars, mvars>>

\* return {'deleted': deleted, 'skipped': len(stale) - deleted}
DeleteDone ==
    /\ pc = "delete"
    /\ todo = << >>
    /\ ret' = Summary(deleted, Len(stale) - deleted)
    /\ pc' = "done"
    /\ UNCHANGED <<db, versions, stale, stale_names, todo, remaining, ordered, calls,
                   deleted, max_age_days, exclude_patterns>>
    /\ UNCHANGED <<ovars, mvars>>

----------------------------------------------------------------------------
(* process_database run on every table dbo.SDE_versions of at most MaxRows    *)
(* versions besides DEFAULT.  The table is a forest rooted at dbo.DEFAULT:    *)
(* (parent_owner, parent_name) names DEFAULT or another row, without cycles.  *)

AgeChoices == {0, 1}

MaxAgeChoices == {1}

ExcludeChoices == {<< >>, << <<"y">> >>}

DefaultRow ==
    [name |-> DEFAULT, owner |-> DBO, parent_name |-> None, parent_owner |-> None, age_days |-> 1]

\* the rows reached from row i by following k parent links (0: DEFAULT)
RECURSIVE Up(_, _, _)
Up(par, i, k) == IF k = 0 \/ i = 0 THEN i ELSE Up(par, par[i], k - 1)

IsForest(par) == \A i \in DOMAIN par : Up(par, i, Len(par)) = 0

\* the table holding DEFAULT and the rows keyed q (owner, name), in this order
MkTable(q, par, age) ==
    <<DefaultRow>> \o
        [i \in DOMAIN q |->
            [name |-> q[i][2], owner |-> q[i][1],
             parent_name |-> IF par[i] = 0 THEN DEFAULT ELSE q[par[i]][2],
             parent_owner |-> IF par[i] = 0 THEN DBO ELSE q[par[i]][1],
             age_days |-> age[i]]]

InitDelete ==
    /\ \E q \in InjSeqs(Owners \X ShortNames, MaxRows) :
          \E par \in [DOMAIN q -> 0..Len(q)], age \in [DOMAIN q -> AgeChoices] :
              IsForest(par) /\ db = MkTable(q, par, age)
    /\ max_age_days \in MaxAgeChoices
    /\ exclude_patterns \in ExcludeChoices
    /\ versions = << >>
    /\ stale = << >>
    /\ stale_names = {}
    /\ todo = << >>
    /\ remaining = {}
    /\ ordered = << >>
    /\ calls = << >>
    /\ deleted = 0
    /\ ret = NoValue
    /\ pc = "start"
    /\ steps = NoValue
    /\ skip_steps = NoValue
    /\ env = << >>
    /\ idx = 0
    /\ results = NoValue
    /\ launched = << >>
    /\ opc = "idle"
    /\ IdleScripts

NextDelete ==
    \/ ListVersionsSql
    \/ ListVersionsArcpy
    \/ FilterStale
    \/ ProtectStep
    \/ ProtectDone
    \/ OrderEnter
    \/ OrderRound
    \/ OrderFallback
    \/ OrderReturn
    \/ PlanAssigned
    \/ DeleteStep
    \/ DeleteDone

SpecDelete == InitDelete /\ [][NextDelete]_vars

----------------------------------------------------------------------------
(* src/scripts/MaintenanceOrchestrator.py *)

SCRIPT_SEQUENCE == <<
    [name |-> "Block Connections", module |-> "src.version_management.ManageConnections",
     critical |-> TRUE, args |-> <<"block">>],
    [name |-> "Disconnect Users", module |-> "src.connection_management.DisconnectUsers",
     critical |-> TRUE],
    [name |-> "Reconcile/Post Versions", module |-> "src.version_management.ReconcilePostVersions",
     critical |-> FALSE],
    [name |-> "Delete Stale Versions", module |-> "src.version_management.DeleteStaleVersions",
     critical |-> FALSE],
    [name |-> "Compress/Rebuild/Analyze", script |-> "CompressRebuildAnalyze.py",
     critical |-> TRUE],
    [name |-> "Check Geometry", module |-> "src.data_integrity.RepairGeometry",
     critical |-> FALSE],
    [name |-> "Validate Topology", module |-> "src.data_integrity.ValidateTopology",
     critical |-> FALSE],
    [name |-> "Export XML Schema", module |-> "src.backup.XMLWorkspaceExport",
     critical |-> FALSE],
    [name |-> "Generate Health Report", module |-> "src.health_monitoring.DatabaseHealthSummary",
     critical |-> FALSE],
    [name |-> "Allow Connections", module |-> "src.version_management.ManageConnections",
     critical |-> TRUE, args |-> <<"allow">>],
    [name |-> "Server Health Check", module |-> "src.server_portal.ServerPortalMaintenance",
     critical |-> FALSE,
     requires_config |-> <<"AGS_SERVER_URL", "AGS_ADMIN_USER", "AGS_ADMIN_PASSWORD">>],
    [name |-> "Portal Backup", module |-> "src.server_portal.PortalBackup",
     critical |-> FALSE,
     requires_config |-> <<"PORTAL_URL", "PORTAL_ADMIN_USER", "PORTAL_ADMIN_PASSWORD",
                           "PORTAL_BACKUP_DIR">>] >>

StepNames == {SCRIPT_SEQUENCE[i].name : i \in DOMAIN SCRIPT_SEQUENCE}

ConfigVars == UNION {Range(SCRIPT_SEQUENCE[i].requires_config) :
                        i \in {j \in DOMAIN SCRIPT_SEQUENCE : "requires_config" \in DOMAIN SCRIPT_SEQUENCE[j]}}

\* a variable counts as set unless it is absent: the empty string passes
check_config_available_NoneOnly(required_vars, environ) ==
    \A i \in DOMAIN required_vars : environ[required_vars[i]] # None

\* check_config_available: "if not os.environ.get(var): return False"
check_config_available(required_vars, environ) ==
    \A i \in DOMAIN required_vars : Truthy(environ[required_vars[i]])

\* the flag is never seen
IsCritical_Never(step) == FALSE

\* every step is taken to be critical
IsCritical_Always(step) == TRUE

\* step.get('critical', False)
IsCritical(step) == IF "critical" \in DOMAIN step THEN step.critical ELSE FALSE

\* What subprocess.run does for a launched script: it returns with exit code 0
\* ("ok") or another exit code ("nonzero"), raises TimeoutExpired ("timeout"),
\* or raises another exception ("error").
RunOutcomes == {"ok", "nonzero", "timeout", "error"}

\* TimeoutExpired is not taken for a failure
run_module_TimeoutPasses(outcome) ==
    CASE outcome = "ok" -> <<TRUE, "stdout+stderr">>
      [] outcome = "nonzero" -> <<FALSE, "stdout+stderr">>
      [] outcome = "timeout" -> <<TRUE, "Script timed out after 1 hour">>
      [] outcome = "error" -> <<FALSE, "str(e)">>

\* run_module: (success, output).  The output is named by its origin; its text,
\* and so the cut output[:500], is left out
run_module(outcome) ==
    CASE outcome = "ok" -> <<TRUE, "stdout+stderr">>
      [] outcome = "nonzero" -> <<FALSE, "stdout+stderr">>
      [] outcome = "timeout" -> <<FALSE, "Script timed out after 1 hour">>
      [] outcome = "error" -> <<FALSE, "str(e)">>

\* run_script: (success, output)
run_script(outcome) ==
    CASE outcome = "ok" -> <<TRUE, "stdout+stderr">>
      [] outcome = "nonzero" -> <<FALSE, "stdout+stderr">>
      [] outcome = "timeout" -> <<FALSE, "Script timed out after 1 hour">>
      [] outcome = "error" -> <<FALSE, "str(e)">>

\* the step the for loop is at
CurStep == SCRIPT_SEQUENCE[idx]

InLoop == opc = "loop" /\ idx \in DOMAIN SCRIPT_SEQUENCE

\* an argument left at its default None, or a list of step names
NoneArg == [kind |-> "None"]

ListArg(names) == [kind |-> "list", names |-> names]

\* truthiness of such an argument: None and the empty list are falsy
ArgTruthy(arg) == arg.kind = "list" /\ arg.names # {}

\* "if steps and step_name not in steps" does not hold
Selected(name) == ~ (ArgTruthy(steps) /\ name \notin steps.names)

\* skip_steps = skip_steps or []; "step_name in skip_steps"
ManuallySkipped(name) == ArgTruthy(skip_steps) /\ name \in skip_steps.names

NeedsConfig(step) ==
    "requires_config" \in DOMAIN step /\ ~ check_config_available(step.requires_config, env)

\* the StepResult is put in front of the list
AppendStep_Front(res, step_result) == [res EXCEPT !.steps = <<step_result>> \o @]

AppendStep(res, step_result) == [res EXCEPT !.steps = Append(@, step_result)]

ArgSize(arg) == IF arg.kind = "list" THEN Cardinality(arg.names) ELSE 0

MissingVars(environ) == {v \in DOMAIN environ : ~ Truthy(environ[v])}

\* the departures from the nominal run so far
Deviations ==
    ArgSize(skip_steps) + Cardinality(MissingVars(env)) +
    Cardinality({i \in DOMAIN results.steps :
                    /\ results.steps[i].status # "skipped"
                    /\ results.steps[i].status = "failed" \/ results.steps[i].duration = 0})

\* the first index from i on whose step is selected, or the index past the end
NextSelected(i) ==
    LET later == {j \in i..Len(SCRIPT_SEQUENCE) : Selected(SCRIPT_SEQUENCE[j].name)}
    IN  IF later = {} THEN Len(SCRIPT_SEQUENCE) + 1
        ELSE CHOOSE j \in later : \A k \in later : j <= k

\* "if steps and step_name not in steps: continue", for a maximal run of
\* consecutive steps that are not selected: nothing but the loop index changes
StepFiltered ==
    /\ InLoop
    /\ ~ Selected(CurStep.name)
    /\ idx' = NextSelected(idx)
    /\ UNCHANGED <<steps, skip_steps, env, results, launched, opc>>
    /\ UNCHANGED <<vvars, mvars>>

\* "if step_name in skip_steps": record the step as skipped, with duration 0
StepManuallySkipped ==
    /\ InLoop
    /\ Selected(CurStep.name)
    /\ ManuallySkipped(CurStep.name)
    /\ results' = AppendStep(results, [name |-> CurStep.name, status |-> "skipped", duration |-> 0])
    /\ idx' = idx + 1
    /\ UNCHANGED <<steps, skip_steps, env, launched, opc>>
    /\ UNCHANGED <<vvars, mvars>>

\* a step without its configuration is counted as a failure of the run
StepMissingConfig_Fails ==
    /\ InLoop
    /\ Selected(CurStep.name)
    /\ ~ ManuallySkipped(CurStep.name)
    /\ NeedsConfig(CurStep)
    /\ results' = [AppendStep(results, [name |-> CurStep.name, status |-> "skipped",
                                        reason |-> "missing configuration"])
                       EXCEPT !.success = FALSE]
    /\ idx' = idx + 1
    /\ UNCHANGED <<steps, skip_steps, env, launched, opc>>
    /\ UNCHANGED <<vvars, mvars>>

\* "if 'requires_config' in step" and the configuration is not available
StepMissingConfig ==
    /\ InLoop
    /\ Selected(CurStep.name)
    /\ ~ ManuallySkipped(CurStep.name)
    /\ NeedsConfig(CurStep)
    /\ results' = AppendStep(results, [name |-> CurStep.name, status |-> "skipped",
                                       reason |-> "missing configuration"])
    /\ idx' = idx + 1
    /\ UNCHANGED <<steps, skip_steps, env, launched, opc>>
    /\ UNCHANGED <<vvars, mvars>>

\* the failure of a critical step sets the flags but the loop goes on
StepRun_NoBreak ==
    /\ InLoop
    /\ Selected(CurStep.name)
    /\ ~ ManuallySkipped(CurStep.name)
    /\ ~ NeedsConfig(CurStep)
    /\ \E outcome \in RunOutcomes, d \in DurationChoices :
          LET r == IF "module" \in DOMAIN CurStep THEN run_module(outcome)
                   ELSE IF "script" \in DOMAIN CurStep THEN run_script(outcome)
                   ELSE <<FALSE, "No module or script specified">>
              success == r[1]
              output == r[2]
              step_result == [name |-> CurStep.name,
                              status |-> IF success THEN "success" ELSE "failed",
                              duration |-> d,
                              output_preview |-> output]
              appended == AppendStep(results, step_result)
          IN  /\ (success /\ d # 0) \/ Deviations < MaxDeviations
              /\ launched' = IF "module" \in DOMAIN CurStep \/ "script" \in DOMAIN CurStep
                             THEN Append(launched, CurStep.name)
                             ELSE launched
              /\ results' = IF success THEN appended
                            ELSE IF IsCritical(CurStep)
                            THEN [appended EXCEPT !.success = FALSE, !.critical_failure = TRUE]
                            ELSE [appended EXCEPT !.success = FALSE]
              /\ idx' = idx + 1
              /\ opc' = opc
    /\ UNCHANGED <<steps, skip_steps, env>>
    /\ UNCHANGED <<vvars, mvars>>

\* the step is run: run_module or run_script, the StepResult is appended, and
\* a failure clears success; the failure of a critical step breaks the loop.
\* d is round(duration, 1) in tenths of a second.
StepRun ==
    /\ InLoop
    /\ Selected(CurStep.name)
    /\ ~ ManuallySkipped(CurStep.name)
    /\ ~ NeedsConfig(CurStep)
    /\ \E outcome \in RunOutcomes, d \in DurationChoices :
          LET r == IF "module" \in DOMAIN CurStep THEN run_module(outcome)
                   ELSE IF "script" \in DOMAIN CurStep THEN run_script(outcome)
                   ELSE <<FALSE, "No module or script specified">>
              success == r[1]
              output == r[2]
              step_result == [name |-> CurStep.name,
                              status |-> IF success THEN "success" ELSE "failed",
                              duration |-> d,
                              output_preview |-> output]
              appended == AppendStep(results, step_result)
          IN  /\ (success /\ d # 0) \/ Deviations < MaxDeviations
              /\ launched' = IF "module" \in DOMAIN CurStep \/ "script" \in DOMAIN CurStep
                             THEN Append(launched, CurStep.name)
                             ELSE launched
              /\ IF success
                 THEN /\ results' = appended
                      /\ idx' = idx + 1
                      /\ opc' = opc
                 ELSE IF IsCritical(CurStep)
                 THEN /\ results' = [appended EXCEPT !.success = FALSE, !.critical_failure = TRUE]
                      /\ idx' = idx
                      /\ opc' = "finish"
                 ELSE /\ results' = [appended EXCEPT !.success = FALSE]
                      /\ idx' = idx + 1
                      /\ opc' = opc
    /\ UNCHANGED <<steps, skip_steps, env>>
    /\ UNCHANGED <<vvars, mvars>>

\* the for loop is exhausted
LoopEnd ==
    /\ opc = "loop"
    /\ idx \notin DOMAIN SCRIPT_SEQUENCE
    /\ opc' = "finish"
    /\ UNCHANGED <<steps, skip_steps, env, idx, results, launched>>
    /\ UNCHANGED <<vvars, mvars>>

\* the function returns only when no step has failed
Finish_OnlyOnSuccess ==
    /\ opc = "finish"
    /\ results.success
    /\ results' = [results EXCEPT !.end_time = "set"]
    /\ opc' = "returned"
    /\ UNCHANGED <<steps, skip_steps, env, idx, launched>>
    /\ UNCHANGED <<vvars, mvars>>

\* results['end_time'] = ...; return results
Finish ==
    /\ opc = "finish"
    /\ results' = [results EXCEPT !.end_time = "set"]
    /\ opc' = "returned"
    /\ UNCHANGED <<steps, skip_steps, env, idx, launched>>
    /\ UNCHANGED <<vvars, mvars>>

----------------------------------------------------------------------------
(* format_summary, and main() printing the summary of the returned report *)

\* "=" * 60
Repeat(s, n) == LET RECURSIVE rep(_)
                    rep(k) == IF k = 0 THEN "" ELSE s \o rep(k - 1)
                IN  rep(n)

\* "\n".join(lines)
Join(lines, sep) ==
    LET RECURSIVE join(_)
        join(k) == IF k = 0 THEN ""
                   ELSE IF k = 1 THEN lines[1]
                   ELSE join(k - 1) \o sep \o lines[k]
    IN  join(Len(lines))

\* f"{x:.1f}" of a value held in tenths
FormatTenths(d) == ToString(d \div 10) \o "." \o ToString(d % 10)

\* step.get('duration', 0)
GetDuration(step) == IF "duration" \in DOMAIN step THEN step.duration ELSE 0

\* the line of one StepResult: the icon, the name, and the duration when
\* step.get('duration') is truthy
StepLine(step) ==
    LET status_icon == IF step.status = "success" THEN "+"
                       ELSE IF step.status = "failed" THEN "-"
                       ELSE "o"
        duration == IF GetDuration(step) # 0
                    THEN "(" \o FormatTenths(GetDuration(step)) \o "s)"
                    ELSE ""
    IN  "  [" \o status_icon \o "] " \o step.name \o " " \o duration

\* the nine lines before the steps
HeaderLines(res) ==
    << "",
       Repeat("=", 60),
       "MAINTENANCE SUMMARY",
       Repeat("=", 60),
       "Start: " \o res.start_time,
       "End: " \o res.end_time,
       "Overall Status: " \o (IF res.success THEN "SUCCESS" ELSE "FAILED"),
       "",
       "Steps:" >>

format_summary(res) ==
    Join(HeaderLines(res) \o [i \in DOMAIN res.steps |-> StepLine(res.steps[i])], "\n")

\* a printed text
TextValue(text) == [kind |-> "text", text |-> text]

\* main(): summary = format_summary(results); print(summary)
Summarize ==
    /\ opc = "returned"
    /\ ret' = TextValue(format_summary(results))
    /\ opc' = "summarized"
    /\ UNCHANGED <<steps, skip_steps, env, idx, results, launched>>
    /\ UNCHANGED <<db, versions, stale, stale_names, todo, remaining, ordered, calls,
                   deleted, max_age_days, exclude_patterns, pc>>
    /\ UNCHANGED mvars

----------------------------------------------------------------------------
(* run_maintenance_sequence called with every selection of at most          *)
(* MaxSelected names (or None), and with skip lists, environments and step   *)
(* outcomes that together depart from the nominal run at most MaxDeviations  *)
(* times.                                                                    *)

SubsetsUpTo(S, n) == {T \in SUBSET S : Cardinality(T) <= n}

InitRun ==
    /\ steps \in {NoneArg} \cup {ListArg(S) : S \in SubsetsUpTo(StepNames, MaxSelected)}
    /\ skip_steps \in {NoneArg} \cup {ListArg(S) : S \in SubsetsUpTo(StepNames, MaxDeviations) \ {{}}}
    /\ \E M \in SubsetsUpTo(ConfigVars, MaxDeviations - ArgSize(skip_steps)) :
          \E falsy \in {None, EmptyStr} :
              env = [v \in ConfigVars |-> IF v \in M THEN falsy ELSE <<"v">>]
    /\ idx = 1
    /\ results = [kind |-> "results", start_time |-> "set", steps |-> << >>, success |-> TRUE,
                  critical_failure |-> FALSE, end_time |-> "unset"]
    /\ launched = << >>
    /\ opc = "loop"
    /\ db = << >>
    /\ versions = << >>
    /\ stale = << >>
    /\ stale_names = {}
    /\ todo = << >>
    /\ remaining = {}
    /\ ordered = << >>
    /\ calls = << >>
    /\ deleted = 0
    /\ ret = NoValue
    /\ max_age_days = 0
    /\ exclude_patterns = << >>
    /\ pc = "idle"
    /\ IdleScripts

NextRun ==
    \/ StepFiltered
    \/ StepManuallySkipped
    \/ StepMissingConfig
    \/ StepRun
    \/ LoopEnd
    \/ Finish
    \/ Summarize

SpecRun == InitRun /\ [][NextRun]_vars

----------------------------------------------------------------------------
(* filter_stale_versions called on its own: every list of at most            *)
(* MaxFilterRows versions named by two letters, every threshold, and every   *)
(* list of at most two patterns of at most two letters ('' included).        *)

Alphabet == {"a", "A", "b"}

\* the strings of exactly n letters
RECURSIVE Strings(_)
Strings(n) ==
    IF n = 0 THEN {EmptyStr}
    ELSE {Append(w, c) : w \in Strings(n - 1), c \in Alphabet}

FilterNames == Strings(2)

FilterPatterns == Strings(0) \cup Strings(1) \cup Strings(2)

FilterMaxAges == {0, 1, 2}

RECURSIVE SeqsUpTo(_, _)
SeqsUpTo(S, n) ==
    IF n = 0 THEN {<< >>}
    ELSE SeqsUpTo(S, n - 1) \cup {Append(q, x) : q \in {r \in SeqsUpTo(S, n - 1) : Len(r) = n - 1}, x \in S}

\* the call and its return
FilterCall ==
    /\ pc = "filter_call"
    /\ ret' = ListValue(filter_stale_versions(versions, max_age_days, exclude_patterns))
    /\ pc' = "filter_ret"
    /\ UNCHANGED <<db, versions, stale, stale_names, todo, remaining, ordered, calls,
                   deleted, max_age_days, exclude_patterns>>
    /\ UNCHANGED <<ovars, mvars>>

InitFilter ==
    /\ versions \in SeqsUpTo([name : FilterNames, parent : {DEFAULT}, age_days : AgeChoices],
                             MaxFilterRows)
    /\ max_age_days \in FilterMaxAges
    /\ exclude_patterns \in SeqsUpTo(FilterPatterns, 2)
    /\ db = << >>
    /\ stale = << >>
    /\ stale_names = {}
    /\ todo = << >>
    /\ remaining = {}
    /\ ordered = << >>
    /\ calls = << >>
    /\ deleted = 0
    /\ ret = NoValue
    /\ pc = "filter_call"
    /\ steps = NoValue
    /\ skip_steps = NoValue
    /\ env = << >>
    /\ idx = 0
    /\ results = NoValue
    /\ launched = << >>
    /\ opc = "idle"
    /\ IdleScripts

NextFilter == FilterCall

SpecFilter == InitFilter /\ [][NextFilter]_vars

----------------------------------------------------------------------------
(* The scripts launched by the critical steps:                              *)
(* src/src/version_management/ManageConnections.py and the two copies of    *)
(* CompressRebuildAnalyze.py.  An arcpy call returns, raises                 *)
(* arcpy.ExecuteError, or raises another exception.                          *)

ArcpyOutcomes == {"ok", "ExecuteError", "Exception"}

\* a function returned this value / an exception left the function
Returned(v) == [kind |-> "return", value |-> v]

Raised == [kind |-> "raise"]

\* the process of a script ended with this exit code: 0 when main() returned,
\* 1 when an exception left main()
Exited(code) == [kind |-> "exit", code |-> code]

\* no function of DeleteStaleVersions.py is under way
IdleVersions ==
    /\ db = << >>
    /\ versions = << >>
    /\ stale = << >>
    /\ stale_names = {}
    /\ todo = << >>
    /\ remaining = {}
    /\ ordered = << >>
    /\ calls = << >>
    /\ deleted = 0
    /\ ret = NoValue
    /\ max_age_days = 0
    /\ exclude_patterns = << >>
    /\ pc = "idle"

\* run_maintenance_sequence is not under way
IdleRun ==
    /\ steps = NoValue
    /\ skip_steps = NoValue
    /\ env = << >>
    /\ idx = 0
    /\ results = NoValue
    /\ launched = << >>
    /\ opc = "idle"

\* set_accept_connections: True, False on arcpy.ExecuteError; any other
\* exception is not caught
set_accept_connections_AlwaysTrue(outcome) ==
    IF outcome = "Exception" THEN Raised ELSE Returned(TRUE)

set_accept_connections(outcome) ==
    CASE outcome = "ok" -> Returned(TRUE)
      [] outcome = "ExecuteError" -> Returned(FALSE)
      [] outcome = "Exception" -> Raised

\* what arcpy.ListUsers hands back when it returns: None, or a list of users
UsersList(n) == [kind |-> "list", len |-> n]

ListUsersValues == {NoneArg} \cup {UsersList(n) : n \in 0..MaxConnections}

\* get_connection_count: len(users) if users else 0; -1 on arcpy.ExecuteError
get_connection_count(outcome, users) ==
    CASE outcome = "ok" -> Returned(IF users.kind = "list" /\ users.len # 0 THEN users.len ELSE 0)
      [] outcome = "ExecuteError" -> Returned(-1)
      [] outcome = "Exception" -> Raised

\* the database the loop of main() is at
CurDb == loc.sde_files[loc.i]

\* the arcpy call is added to the calls made so far
Call(op, database, arg, outcome) ==
    Append(trace, [op |-> op, db |-> database, arg |-> arg, outcome |-> outcome])

\* process_database returns: main() drops the dict and goes to the next file
NextFile(dict) == [loc EXCEPT !.i = @ + 1, !.returned = Append(@, dict)]

\* main(): "if not sde_files": warning and return
ConnNoFiles ==
    /\ mpc = "conn_main"
    /\ loc.sde_files = << >>
    /\ mpc' = "exited"
    /\ mret' = Exited(0)
    /\ UNCHANGED <<loc, world, trace>>
    /\ UNCHANGED <<vvars, ovars>>

\* process_database, action "allow" or "block": one set_accept_connections
ConnSetAccept ==
    /\ mpc = "conn_main"
    /\ loc.i \in DOMAIN loc.sde_files
    /\ loc.action \in {"allow", "block"}
    /\ \E outcome \in ArcpyOutcomes :
          LET r == set_accept_connections(outcome)
          IN  /\ trace' = Call("AcceptConnections", CurDb, loc.action = "allow", outcome)
              /\ IF r = Raised
                 THEN mpc' = "exited" /\ mret' = Exited(1) /\ loc' = loc
                 ELSE /\ loc' = NextFile([database |-> CurDb, action |-> loc.action,
                                          success |-> r.value])
                      /\ UNCHANGED <<mpc, mret>>
    /\ UNCHANGED world
    /\ UNCHANGED <<vvars, ovars>>

\* process_database, any other action but "block_and_wait": nothing is called
ConnUnknownAction ==
    /\ mpc = "conn_main"
    /\ loc.i \in DOMAIN loc.sde_files
    /\ loc.action \notin {"allow", "block", "block_and_wait"}
    /\ loc' = NextFile([database |-> CurDb, action |-> loc.action, success |-> FALSE])
    /\ UNCHANGED <<mpc, world, trace, mret>>
    /\ UNCHANGED <<vvars, ovars>>

\* block_and_wait is entered: set_accept_connections(database_path, False);
\* on False it returns at once, otherwise elapsed = 0 and the loop begins
BlockAndWaitEnter ==
    /\ mpc = "conn_main"
    /\ loc.i \in DOMAIN loc.sde_files
    /\ loc.action = "block_and_wait"
    /\ \E outcome \in ArcpyOutcomes :
          LET r == set_accept_connections(outcome)
          IN  /\ trace' = Call("AcceptConnections", CurDb, FALSE, outcome)
              /\ IF r = Raised
                 THEN mpc' = "exited" /\ mret' = Exited(1) /\ loc' = loc
                 ELSE IF ~ r.value
                 THEN /\ loc' = NextFile([database |-> CurDb, action |-> loc.action,
                                          success |-> FALSE, connections_remaining |-> -1])
                      /\ UNCHANGED <<mpc, mret>>
                 ELSE /\ loc' = [loc EXCEPT !.elapsed = 0]
                      /\ mpc' = "conn_wait"
                      /\ mret' = mret
    /\ UNCHANGED world
    /\ UNCHANGED <<vvars, ovars>>

\* a failed count (-1) is taken for a drained database
BlockAndWaitPoll_MinusOneDrained ==
    /\ mpc = "conn_wait"
    /\ loc.elapsed < loc.timeout_minutes * 60
    /\ \E outcome \in ArcpyOutcomes, users \in ListUsersValues :
          LET r == get_connection_count(outcome, users)
          IN  /\ outcome # "ok" => users = NoneArg
              /\ IF r = Raised
                 THEN mpc' = "exited" /\ mret' = Exited(1) /\ loc' = loc
                 ELSE IF r.value <= 1
                 THEN /\ loc' = NextFile([database |-> CurDb, action |-> loc.action,
                                          success |-> TRUE, connections_remaining |-> r.value])
                      /\ mpc' = "conn_main"
                      /\ mret' = mret
                 ELSE /\ loc' = [loc EXCEPT !.elapsed = @ + 10]
                      /\ UNCHANGED <<mpc, mret>>
    /\ UNCHANGED <<world, trace>>
    /\ UNCHANGED <<vvars, ovars>>

\* one iteration of "while elapsed < timeout_seconds": a count of 0 or 1
\* returns success, any other count sleeps check_interval = 10 seconds
BlockAndWaitPoll ==
    /\ mpc = "conn_wait"
    /\ loc.elapsed < loc.timeout_minutes * 60
    /\ \E outcome \in ArcpyOutcomes, users \in ListUsersValues :
          LET r == get_connection_count(outcome, users)
          IN  /\ outcome # "ok" => users = NoneArg
              /\ IF r = Raised
                 THEN mpc' = "exited" /\ mret' = Exited(1) /\ loc' = loc
                 ELSE IF r.value = 0 \/ r.value = 1
                 THEN /\ loc' = NextFile([database |-> CurDb, action |-> loc.action,
                                          success |-> TRUE, connections_remaining |-> r.value])
                      /\ mpc' = "conn_main"
                      /\ mret' = mret
                 ELSE /\ loc' = [loc EXCEPT !.elapsed = @ + 10]
                      /\ UNCHANGED <<mpc, mret>>
    /\ UNCHANGED <<world, trace>>
    /\ UNCHANGED <<vvars, ovars>>

\* the loop condition fails: final_count = get_connection_count(...), and
\* block_and_wait returns success False
BlockAndWaitTimeout ==
    /\ mpc = "conn_wait"
    /\ ~ (loc.elapsed < loc.timeout_minutes * 60)
    /\ \E outcome \in ArcpyOutcomes, users \in ListUsersValues :
          LET r == get_connection_count(outcome, users)
          IN  /\ outcome # "ok" => users = NoneArg
              /\ IF r = Raised
                 THEN mpc' = "exited" /\ mret' = Exited(1) /\ loc' = loc
                 ELSE /\ loc' = NextFile([database |-> CurDb, action |-> loc.action,
                                          success |-> FALSE, connections_remaining |-> r.value])
                      /\ mpc' = "conn_main"
                      /\ mret' = mret
    /\ UNCHANGED <<world, trace>>
    /\ UNCHANGED <<vvars, ovars>>

\* main(): the loop over sde_files is over; "DONE!" and the process ends
ConnDone ==
    /\ mpc = "conn_main"
    /\ loc.sde_files # << >>
    /\ loc.i = Len(loc.sde_files) + 1
    /\ mpc' = "exited"
    /\ mret' = Exited(0)
    /\ UNCHANGED <<loc, world, trace>>
    /\ UNCHANGED <<vvars, ovars>>

----------------------------------------------------------------------------
(* CompressRebuildAnalyze.py, the copy at the root of src/ (the script of   *)
(* the step Compress/Rebuild/Analyze) and the copy in database_maintenance  *)

\* operations of process_database, src/CompressRebuildAnalyze.py
operations_script == << "analyze", "compress", "rebuild", "analyze" >>

\* operations of process_database, src/src/database_maintenance/CompressRebuildAnalyze.py
operations_module == << "analyze", "compress", "rebuild", "analyze" >>

\* the list operations of the copy under way
operations == IF loc.copy = "script" THEN operations_script ELSE operations_module

\* main(): "if not sde_files": return
CompressNoFiles ==
    /\ mpc = "compress_main"
    /\ loc.sde_files = << >>
    /\ mpc' = "exited"
    /\ mret' = Exited(0)
    /\ UNCHANGED <<loc, world, trace>>
    /\ UNCHANGED <<vvars, ovars>>

\* process_database goes on to the operation after the one that raised
CompressOperation_KeepsGoing ==
    /\ mpc = "compress_main"
    /\ loc.i \in DOMAIN loc.sde_files
    /\ \E outcome \in ArcpyOutcomes :
          /\ trace' = Call(operations[loc.op], CurDb, loc.op, outcome)
          /\ IF loc.op = Len(operations)
             THEN loc' = [NextFile(Returned(outcome = "ok")) EXCEPT !.op = 1]
             ELSE loc' = [loc EXCEPT !.op = @ + 1]
    /\ UNCHANGED <<mpc, world, mret>>
    /\ UNCHANGED <<vvars, ovars>>

\* one iteration of "for operation_name, operation_func in operations":
\* the operation is called; arcpy.ExecuteError and every other Exception
\* make process_database return False; after the last operation it returns
\* True.  main() drops the value and goes to the next file.
CompressOperation ==
    /\ mpc = "compress_main"
    /\ loc.i \in DOMAIN loc.sde_files
    /\ \E outcome \in ArcpyOutcomes :
          /\ trace' = Call(operations[loc.op], CurDb, loc.op, outcome)
          /\ IF outcome # "ok"
             THEN loc' = [NextFile(Returned(FALSE)) EXCEPT !.op = 1]
             ELSE IF loc.op = Len(operations)
             THEN loc' = [NextFile(Returned(TRUE)) EXCEPT !.op = 1]
             ELSE loc' = [loc EXCEPT !.op = @ + 1]
    /\ UNCHANGED <<mpc, world, mret>>
    /\ UNCHANGED <<vvars, ovars>>

\* main(): the loop over sde_files is over; "DONE!" and the process ends
CompressDone ==
    /\ mpc = "compress_main"
    /\ loc.sde_files # << >>
    /\ loc.i = Len(loc.sde_files) + 1
    /\ mpc' = "exited"
    /\ mret' = Exited(0)
    /\ UNCHANGED <<loc, world, trace>>
    /\ UNCHANGED <<vvars, ovars>>

----------------------------------------------------------------------------
(* The two scripts run as processes, as the orchestrator launches them, on  *)
(* at most MaxDatabases connection files.                                    *)

\* os.path.basename of the i-th .sde file of SDE_CONNECTION_DIR
SdeFile(i) == "db" \o ToString(i) \o ".sde"

SdeFileLists == {[i \in 1..k |-> SdeFile(i)] : k \in 0..MaxDatabases}

\* the first command line argument of ManageConnections.py; '' when absent
ActionArgs == {"", "allow", "block", "block_and_wait", "status"}

\* CONNECTION_TIMEOUT_MINUTES
TimeoutMinutesChoices == {0, 1}

InitStepScripts ==
    /\ \/ /\ mpc = "conn_main"
          /\ \E a \in ActionArgs, t \in TimeoutMinutesChoices, files \in SdeFileLists :
                loc = [script |-> "ManageConnections",
                       action |-> IF a = "" THEN "block" ELSE a,
                       timeout_minutes |-> t,
                       sde_files |-> files,
                       i |-> 1,
                       elapsed |-> 0,
                       returned |-> << >>]
       \/ /\ mpc = "compress_main"
          /\ \E c \in {"script", "module"}, files \in SdeFileLists :
                loc = [script |-> "CompressRebuildAnalyze",
                       copy |-> c,
                       sde_files |-> files,
                       i |-> 1,
                       op |-> 1,
                       returned |-> << >>]
    /\ world = NoValue
    /\ trace = << >>
    /\ mret = NoValue
    /\ IdleVersions
    /\ IdleRun

NextStepScripts ==
    \/ ConnNoFiles
    \/ ConnSetAccept
    \/ ConnUnknownAction
    \/ BlockAndWaitEnter
    \/ BlockAndWaitPoll
    \/ BlockAndWaitTimeout
    \/ ConnDone
    \/ CompressNoFiles
    \/ CompressOperation
    \/ CompressDone

SpecStepScripts == InitStepScripts /\ [][NextStepScripts]_vars

----------------------------------------------------------------------------
(* src/src/data_integrity/RepairGeometry.py: process_feature_class with     *)
(* check_geometry, repair_geometry and repair_geometry_versioned.  world    *)
(* holds the edit sessions of the geodatabase: the number of editors        *)
(* created, the editors whose session is open, and the editors whose        *)
(* session was closed with save_changes=True.  A call that raises has had   *)
(* no effect.                                                                *)

\* main(): os.environ.get('AUTO_REPAIR', 'false').lower() == 'true'
ParseAutoRepair(value) ==
    Lower(IF value = None THEN <<"f", "a", "l", "s", "e">> ELSE value) = <<"t", "r", "u", "e">>

\* the dict result of check_geometry before anything was checked
UncheckedResult == [checked |-> FALSE, error_count |-> 0]

\* run_check_geometry ends in one of these ways: all calls return; an
\* arcpy.ExecuteError before error_count is stored; an arcpy.ExecuteError
\* after it (SearchCursor, Delete_management); any other exception
CheckOutcomes == {"ok", "ExecuteError", "ExecuteErrorAfterCount", "Exception"}

\* run_check_geometry: arcpy.ExecuteError is caught and the result returned
\* as far as it was filled in; the list 'errors' is left out
run_check_geometry(outcome, n) ==
    CASE outcome = "ok" -> Returned([checked |-> TRUE, error_count |-> n])
      [] outcome = "ExecuteErrorAfterCount" -> Returned([checked |-> TRUE, error_count |-> n])
      [] outcome = "ExecuteError" -> Returned(UncheckedResult)
      [] outcome = "Exception" -> Raised

\* error_count of the geometry check: int(arcpy.GetCount_management(...)[0])
ErrorCounts == {0, 2}

\* editor.startEditing succeeded / editor.stopEditing(save_changes) succeeded
OpenSession(w, editor) == [w EXCEPT !.open = @ \cup {editor}]

CloseSession(w, editor, save_changes) ==
    [w EXCEPT !.open = @ \ {editor},
              !.saved = IF save_changes THEN @ \cup {editor} ELSE @]

\* an exception leaves process_feature_class: nothing up to the top of the
\* script catches it
Crash ==
    /\ mpc' = "exited"
    /\ mret' = Exited(1)
    /\ loc' = loc

\* check_geometry returns result to process_feature_class: after the first
\* check result['is_versioned'] is set and error_count tested, the check
\* after a repair is followed by the return
CheckReturns(result) ==
    IF loc.pass = 1
    THEN /\ loc' = [loc EXCEPT !.result = [is_versioned |-> loc.is_versioned] @@ result,
                             !.editor = 0]
         /\ mpc' = "pfc_decide"
    ELSE /\ loc' = [loc EXCEPT !.after = result, !.editor = 0]
         /\ mpc' = "pfc_return"

\* check_geometry, "if not is_versioned": return run_check_geometry(...)
CheckGeometryPlain ==
    /\ mpc = "chk_enter"
    /\ ~ loc.is_versioned
    /\ \E outcome \in CheckOutcomes, n \in ErrorCounts :
          LET r == run_check_geometry(outcome, n)
          IN  /\ trace' = Call("CheckGeometry", loc.database, NoValue, outcome)
              /\ IF r = Raised
                 THEN Crash
                 ELSE CheckReturns(r.value) /\ mret' = mret
    /\ UNCHANGED world
    /\ UNCHANGED <<vvars, ovars>>

\* check_geometry, versioned: editor = None, result = {...};
\* editor = arcpy.da.Editor(database_path)
CheckEditor ==
    /\ mpc = "chk_enter"
    /\ loc.is_versioned
    /\ \E outcome \in ArcpyOutcomes :
          /\ trace' = Call("Editor", loc.database, NoValue, outcome)
          /\ IF outcome = "ok"
             THEN /\ world' = [world EXCEPT !.created = @ + 1]
                  /\ loc' = [loc EXCEPT !.cur = UncheckedResult, !.editor = world.created + 1]
                  /\ mpc' = "chk_start"
             ELSE /\ world' = world
                  /\ loc' = [loc EXCEPT !.cur = UncheckedResult, !.editor = 0]
                  /\ mpc' = "chk_finally"
    /\ UNCHANGED mret
    /\ UNCHANGED <<vvars, ovars>>

\* editor.startEditing(with_undo=False, multiuser_mode=True)
CheckStartEditing ==
    /\ mpc = "chk_start"
    /\ \E outcome \in ArcpyOutcomes :
          /\ trace' = Call("startEditing", loc.database, NoValue, outcome)
          /\ IF outcome = "ok"
             THEN world' = OpenSession(world, loc.editor) /\ mpc' = "chk_run"
             ELSE world' = world /\ mpc' = "chk_finally"
    /\ UNCHANGED <<loc, mret>>
    /\ UNCHANGED <<vvars, ovars>>

\* result = run_check_geometry(fc_path, fc_name) inside the edit session; an
\* exception it lets through is caught by "except Exception"
CheckRun ==
    /\ mpc = "chk_run"
    /\ \E outcome \in CheckOutcomes, n \in ErrorCounts :
          LET r == run_check_geometry(outcome, n)
          IN  /\ trace' = Call("CheckGeometry", loc.database, NoValue, outcome)
              /\ IF r = Raised
                 THEN loc' = loc /\ mpc' = "chk_finally"
                 ELSE loc' = [loc EXCEPT !.cur = r.value] /\ mpc' = "chk_stop"
    /\ UNCHANGED <<world, mret>>
    /\ UNCHANGED <<vvars, ovars>>

\* editor.stopEditing(save_changes=False) at the end of the try block
CheckStopEditing ==
    /\ mpc = "chk_stop"
    /\ \E outcome \in ArcpyOutcomes :
          /\ trace' = Call("stopEditing", loc.database, FALSE, outcome)
          /\ world' = IF outcome = "ok" THEN CloseSession(world, loc.editor, FALSE) ELSE world
    /\ mpc' = "chk_finally"
    /\ UNCHANGED <<loc, mret>>
    /\ UNCHANGED <<vvars, ovars>>

\* finally: "if editor is not None": "if editor.isEditing":
\* editor.stopEditing(save_changes=False), any exception of it passed over;
\* then "return result"
CheckFinally ==
    /\ mpc = "chk_finally"
    /\ IF loc.editor # 0 /\ loc.editor \in world.open
       THEN \E outcome \in ArcpyOutcomes :
               /\ trace' = Call("stopEditing", loc.database, FALSE, outcome)
               /\ world' = IF outcome = "ok" THEN CloseSession(world, loc.editor, FALSE) ELSE world
       ELSE UNCHANGED <<world, trace>>
    /\ CheckReturns(loc.cur)
    /\ UNCHANGED mret
    /\ UNCHANGED <<vvars, ovars>>

\* process_feature_class returns result
PfcReturns(result) ==
    /\ mpc' = "returned"
    /\ mret' = Returned(result)
    /\ loc' = loc

\* the repair is started whenever the check found errors
PfcDecide_IgnoresAutoRepair ==
    /\ mpc = "pfc_decide"
    /\ IF loc.result.error_count > 0
       THEN /\ mpc' = IF loc.is_versioned THEN "rep_enter" ELSE "rep_plain"
            /\ UNCHANGED <<loc, mret>>
       ELSE PfcReturns([repaired |-> FALSE] @@ loc.result)
    /\ UNCHANGED <<world, trace>>
    /\ UNCHANGED <<vvars, ovars>>

\* process_feature_class after the first check: "if result['error_count'] >
\* 0": "if auto_repair": repair_geometry(...); else result['repaired'] = False
PfcDecide ==
    /\ mpc = "pfc_decide"
    /\ IF loc.result.error_count > 0
       THEN IF loc.auto_repair
            THEN /\ mpc' = IF loc.is_versioned THEN "rep_enter" ELSE "rep_plain"
                 /\ UNCHANGED <<loc, mret>>
            ELSE PfcReturns(loc.result)
       ELSE PfcReturns([repaired |-> FALSE] @@ loc.result)
    /\ UNCHANGED <<world, trace>>
    /\ UNCHANGED <<vvars, ovars>>

\* repair_geometry, not versioned: arcpy.RepairGeometry_management in a try
\* that catches arcpy.ExecuteError only
RepairPlain ==
    /\ mpc = "rep_plain"
    /\ \E outcome \in ArcpyOutcomes :
          /\ trace' = Call("RepairGeometry", loc.database, NoValue, outcome)
          /\ IF outcome = "Exception"
             THEN Crash
             ELSE /\ loc' = [loc EXCEPT !.rv = (outcome = "ok"), !.editor = 0]
                  /\ mpc' = "rep_returned"
                  /\ mret' = mret
    /\ UNCHANGED world
    /\ UNCHANGED <<vvars, ovars>>

\* repair_geometry_versioned: editor = None; editor = arcpy.da.Editor(...).
\* rv is the value a return statement or an except clause has set for the
\* function, which the finally block lets through
RepairEditor ==
    /\ mpc = "rep_enter"
    /\ \E outcome \in ArcpyOutcomes :
          /\ trace' = Call("Editor", loc.database, NoValue, outcome)
          /\ IF outcome = "ok"
             THEN /\ world' = [world EXCEPT !.created = @ + 1]
                  /\ loc' = [loc EXCEPT !.editor = world.created + 1]
                  /\ mpc' = "rep_start"
             ELSE /\ world' = world
                  /\ loc' = [loc EXCEPT !.editor = 0, !.rv = FALSE]
                  /\ mpc' = "rep_finally"
    /\ UNCHANGED mret
    /\ UNCHANGED <<vvars, ovars>>

\* editor.startEditing(with_undo=False, multiuser_mode=True)
RepairStartEditing ==
    /\ mpc = "rep_start"
    /\ \E outcome \in ArcpyOutcomes :
          /\ trace' = Call("startEditing", loc.database, NoValue, outcome)
          /\ IF outcome = "ok"
             THEN world' = OpenSession(world, loc.editor) /\ loc' = loc /\ mpc' = "rep_op"
             ELSE world' = world /\ loc' = [loc EXCEPT !.rv = FALSE] /\ mpc' = "rep_finally"
    /\ UNCHANGED mret
    /\ UNCHANGED <<vvars, ovars>>

\* editor.startOperation()
RepairStartOperation ==
    /\ mpc = "rep_op"
    /\ \E outcome \in ArcpyOutcomes :
          /\ trace' = Call("startOperation", loc.database, NoValue, outcome)
          /\ IF outcome = "ok"
             THEN loc' = loc /\ mpc' = "rep_repair"
             ELSE loc' = [loc EXCEPT !.rv = FALSE] /\ mpc' = "rep_finally"
    /\ UNCHANGED <<world, mret>>
    /\ UNCHANGED <<vvars, ovars>>

\* a call of the inner try block was made: on arcpy.ExecuteError the inner
\* except clause runs, any other exception goes to the outer "except
\* Exception", which returns False
InnerTry(outcome, next) ==
    CASE outcome = "ok" -> loc' = loc /\ mpc' = next
      [] outcome = "ExecuteError" -> loc' = loc /\ mpc' = "rep_abort"
      [] outcome = "Exception" -> loc' = [loc EXCEPT !.rv = FALSE] /\ mpc' = "rep_finally"

\* arcpy.RepairGeometry_management(fc_path, "DELETE_NULL")
RepairRun ==
    /\ mpc = "rep_repair"
    /\ \E outcome \in ArcpyOutcomes :
          /\ trace' = Call("RepairGeometry", loc.database, NoValue, outcome)
          /\ InnerTry(outcome, "rep_stopop")
    /\ UNCHANGED <<world, mret>>
    /\ UNCHANGED <<vvars, ovars>>

\* editor.stopOperation()
RepairStopOperation ==
    /\ mpc = "rep_stopop"
    /\ \E outcome \in ArcpyOutcomes :
          /\ trace' = Call("stopOperation", loc.database, NoValue, outcome)
          /\ InnerTry(outcome, "rep_save")
    /\ UNCHANGED <<world, mret>>
    /\ UNCHANGED <<vvars, ovars>>

\* editor.stopEditing(save_changes=True); return True, ...
RepairSave ==
    /\ mpc = "rep_save"
    /\ \E outcome \in ArcpyOutcomes :
          /\ trace' = Call("stopEditing", loc.database, TRUE, outcome)
          /\ IF outcome = "ok"
             THEN /\ world' = CloseSession(world, loc.editor, TRUE)
                  /\ loc' = [loc EXCEPT !.rv = TRUE]
                  /\ mpc' = "rep_finally"
             ELSE /\ world' = world
                  /\ InnerTry(outcome, "rep_finally")
    /\ UNCHANGED mret
    /\ UNCHANGED <<vvars, ovars>>

\* inner except clause: editor.abortOperation(), any exception of it passed
\* over
RepairAbort ==
    /\ mpc = "rep_abort"
    /\ \E outcome \in ArcpyOutcomes :
          trace' = Call("abortOperation", loc.database, NoValue, outcome)
    /\ mpc' = "rep_discard"
    /\ UNCHANGED <<loc, world, mret>>
    /\ UNCHANGED <<vvars, ovars>>

\* the session of a failed repair is closed with save_changes=True
RepairDiscard_Saves ==
    /\ mpc = "rep_discard"
    /\ \E outcome \in ArcpyOutcomes :
          /\ trace' = Call("stopEditing", loc.database, TRUE, outcome)
          /\ world' = IF outcome = "ok" THEN CloseSession(world, loc.editor, TRUE) ELSE world
    /\ loc' = [loc EXCEPT !.rv = FALSE]
    /\ mpc' = "rep_finally"
    /\ UNCHANGED mret
    /\ UNCHANGED <<vvars, ovars>>

\* inner except clause: editor.stopEditing(save_changes=False); return False.
\* An exception of stopEditing goes to the outer except clauses, which
\* return False as well
RepairDiscard ==
    /\ mpc = "rep_discard"
    /\ \E outcome \in ArcpyOutcomes :
          /\ trace' = Call("stopEditing", loc.database, FALSE, outcome)
          /\ world' = IF outcome = "ok" THEN CloseSession(world, loc.editor, FALSE) ELSE world
    /\ loc' = [loc EXCEPT !.rv = FALSE]
    /\ mpc' = "rep_finally"
    /\ UNCHANGED mret
    /\ UNCHANGED <<vvars, ovars>>

\* finally: "if editor is not None": "if editor.isEditing":
\* editor.stopEditing(save_changes=False), any exception of it passed over;
\* repair_geometry_versioned returns (rv, message) and repair_geometry rv
RepairFinally ==
    /\ mpc = "rep_finally"
    /\ IF loc.editor # 0 /\ loc.editor \in world.open
       THEN \E outcome \in ArcpyOutcomes :
               /\ trace' = Call("stopEditing", loc.database, FALSE, outcome)
               /\ world' = IF outcome = "ok" THEN CloseSession(world, loc.editor, FALSE) ELSE world
       ELSE UNCHANGED <<world, trace>>
    /\ mpc' = "rep_returned"
    /\ UNCHANGED <<loc, mret>>
    /\ UNCHANGED <<vvars, ovars>>

\* process_feature_class, "if repair_geometry(...)": the check after the
\* repair; else result['repaired'] = False, result['repair_skipped'] = True
PfcAfterRepair ==
    /\ mpc = "rep_returned"
    /\ IF loc.rv
       THEN /\ loc' = [loc EXCEPT !.pass = 2, !.editor = 0]
            /\ mpc' = "chk_enter"
            /\ mret' = mret
       ELSE PfcReturns([repaired |-> FALSE, repair_skipped |-> TRUE] @@ loc.result)
    /\ UNCHANGED <<world, trace>>
    /\ UNCHANGED <<vvars, ovars>>

\* after = check_geometry(...); result['repaired'] = True;
\* result['errors_after_repair'] = after['error_count']; return result
PfcReturn ==
    /\ mpc = "pfc_return"
    /\ PfcReturns([repaired |-> TRUE, errors_after_repair |-> loc.after.error_count]
                  @@ loc.result)
    /\ UNCHANGED <<world, trace>>
    /\ UNCHANGED <<vvars, ovars>>

\* values of the environment variable AUTO_REPAIR; None when it is not set
AutoRepairValues ==
    {None, <<"t", "r", "u", "e">>, <<"T", "r", "u", "e">>, <<"f", "a", "l", "s", "e">>, <<"1">>}

\* process_feature_class is called for one feature class by a script started
\* with AUTO_REPAIR; is_versioned is what is_feature_class_versioned returned
InitRepair ==
    /\ mpc = "chk_enter"
    /\ \E value \in AutoRepairValues, v \in BOOLEAN :
          loc = [script |-> "RepairGeometry",
                 AUTO_REPAIR |-> value,
                 auto_repair |-> ParseAutoRepair(value),
                 database |-> SdeFile(1),
                 is_versioned |-> v,
                 pass |-> 1,
                 editor |-> 0,
                 cur |-> UncheckedResult,
                 result |-> UncheckedResult,
                 after |-> UncheckedResult,
                 rv |-> FALSE]
    /\ world = [created |-> 0, open |-> {}, saved |-> {}]
    /\ trace = << >>
    /\ mret = NoValue
    /\ IdleVersions
    /\ IdleRun

NextRepair ==
    \/ CheckGeometryPlain
    \/ CheckEditor
    \/ CheckStartEditing
    \/ CheckRun
    \/ CheckStopEditing
    \/ CheckFinally
    \/ PfcDecide
    \/ RepairPlain
    \/ RepairEditor
    \/ RepairStartEditing
    \/ RepairStartOperation
    \/ RepairRun
    \/ RepairStopOperation
    \/ RepairSave
    \/ RepairAbort
    \/ RepairDiscard
    \/ RepairFinally
    \/ PfcAfterRepair
    \/ PfcReturn

SpecRepair == InitRepair /\ [][NextRepair]_vars

----------------------------------------------------------------------------
(* src/src/connection_management/DisconnectUsers.py: disconnect_all *)

\* the names compared with user.Name.lower(): ['sde', 'admin', 'dbo']
AdminNames == {<<"s", "d", "e">>, <<"a", "d", "m", "i", "n">>, <<"d", "b", "o">>}

\* get_connected_users: "users if users else []"; [] on arcpy.ExecuteError
get_connected_users(outcome, users) ==
    CASE outcome = "ok" -> Returned(users)
      [] outcome = "ExecuteError" -> Returned(<< >>)
      [] outcome = "Exception" -> Raised

\* disconnect_user: True; False on arcpy.ExecuteError
disconnect_user(outcome) ==
    CASE outcome = "ok" -> Returned(TRUE)
      [] outcome = "ExecuteError" -> Returned(FALSE)
      [] outcome = "Exception" -> Raised

\* users = get_connected_users(database_path); "if not users": return zeros.
\* connected is what arcpy.ListUsers finds; None and [] give the same
DisconnectList ==
    /\ mpc = "dis_enter"
    /\ \E outcome \in ArcpyOutcomes :
          LET r == get_connected_users(outcome, loc.connected)
          IN  /\ trace' = Call("ListUsers", loc.database, NoValue, outcome)
              /\ IF r = Raised
                 THEN Crash
                 ELSE IF r.value = << >>
                 THEN /\ mpc' = "returned"
                      /\ mret' = Returned([disconnected |-> 0, failed |-> 0, excluded |-> 0])
                      /\ loc' = [loc EXCEPT !.users = r.value]
                 ELSE /\ mpc' = "dis_loop"
                      /\ mret' = mret
                      /\ loc' = [loc EXCEPT !.users = r.value, !.i = 1, !.disconnected = 0,
                                            !.failed = 0, !.excluded = 0]
    /\ UNCHANGED world
    /\ UNCHANGED <<vvars, ovars>>

\* user.Name is compared as it is spelled
DisconnectAllUser_NoLower ==
    /\ mpc = "dis_loop"
    /\ loc.i \in DOMAIN loc.users
    /\ LET user == loc.users[loc.i]
       IN  IF loc.exclude_admin /\ Truthy(user.Name) /\ user.Name \in AdminNames
           THEN /\ loc' = [loc EXCEPT !.excluded = @ + 1, !.i = @ + 1]
                /\ UNCHANGED <<mpc, mret, trace>>
           ELSE \E outcome \in ArcpyOutcomes :
                   LET r == disconnect_user(outcome)
                   IN  /\ trace' = Call("DisconnectUser", loc.database, user.ID, outcome)
                       /\ IF r = Raised
                          THEN Crash
                          ELSE /\ loc' = IF r.value
                                         THEN [loc EXCEPT !.disconnected = @ + 1, !.i = @ + 1]
                                         ELSE [loc EXCEPT !.failed = @ + 1, !.i = @ + 1]
                               /\ UNCHANGED <<mpc, mret>>
    /\ UNCHANGED world
    /\ UNCHANGED <<vvars, ovars>>

\* one iteration of "for user in users": with exclude_admin a user whose
\* name, lower-cased, is in the list is counted as excluded; any other user
\* is disconnected by disconnect_user(database_path, user.ID)
DisconnectAllUser ==
    /\ mpc = "dis_loop"
    /\ loc.i \in DOMAIN loc.users
    /\ LET user == loc.users[loc.i]
       IN  IF loc.exclude_admin /\ Truthy(user.Name) /\ Lower(user.Name) \in AdminNames
           THEN /\ loc' = [loc EXCEPT !.excluded = @ + 1, !.i = @ + 1]
                /\ UNCHANGED <<mpc, mret, trace>>
           ELSE \E outcome \in ArcpyOutcomes :
                   LET r == disconnect_user(outcome)
                   IN  /\ trace' = Call("DisconnectUser", loc.database, user.ID, outcome)
                       /\ IF r = Raised
                          THEN Crash
                          ELSE /\ loc' = IF r.value
                                         THEN [loc EXCEPT !.disconnected = @ + 1, !.i = @ + 1]
                                         ELSE [loc EXCEPT !.failed = @ + 1, !.i = @ + 1]
                               /\ UNCHANGED <<mpc, mret>>
    /\ UNCHANGED world
    /\ UNCHANGED <<vvars, ovars>>

\* the loop is over: return {'disconnected': ..., 'failed': ..., 'excluded': ...}
DisconnectReturn ==
    /\ mpc = "dis_loop"
    /\ loc.i = Len(loc.users) + 1
    /\ mpc' = "returned"
    /\ mret' = Returned([disconnected |-> loc.disconnected, failed |-> loc.failed,
                         excluded |-> loc.excluded])
    /\ UNCHANGED <<loc, world, trace>>
    /\ UNCHANGED <<vvars, ovars>>

\* values of user.Name: None, '', and names that are or are not an
\* administrator's whatever the case
UserNames ==
    {None, EmptyStr, <<"s", "d", "e">>, <<"D", "B", "O">>, <<"A", "d", "m", "i", "n">>,
     <<"s", "d", "e", "x">>, <<"b", "o", "b">>}

\* disconnect_all is called on a database with at most MaxUsers connections;
\* the i-th connection has the ID i
InitDisconnect ==
    /\ mpc = "dis_enter"
    /\ \E names \in SeqsUpTo(UserNames, MaxUsers), b \in BOOLEAN :
          loc = [script |-> "DisconnectUsers",
                 database |-> SdeFile(1),
                 exclude_admin |-> b,
                 connected |-> [i \in DOMAIN names |-> [ID |-> i, Name |-> names[i]]],
                 users |-> << >>,
                 i |-> 1,
                 disconnected |-> 0,
                 failed |-> 0,
                 excluded |-> 0]
    /\ world = NoValue
    /\ trace = << >>
    /\ mret = NoValue
    /\ IdleVersions
    /\ IdleRun

NextDisconnect ==
    \/ DisconnectList
    \/ DisconnectAllUser
    \/ DisconnectReturn

SpecDisconnect == InitDisconnect /\ [][NextDisconnect]_vars

----------------------------------------------------------------------------
(* Properties of the step scripts (SpecStepScripts) *)

\* subprocess.run hands back the exit code; run_module and run_script test
\* "result.returncode == 0"
ReturncodeOutcome(code) == IF code = 0 THEN "ok" ELSE "nonzero"

\* the script ran as one of the three critical steps: ManageConnections.py
\* with the argument block or allow, or CompressRebuildAnalyze.py of src/
RanAsCriticalStep ==
    /\ mpc = "exited"
    /\ \/ loc.script = "ManageConnections" /\ loc.action \in {"block", "allow"}
       \/ loc.script = "CompressRebuildAnalyze" /\ loc.copy = "script"

\* the driver operation failed for a database: set_accept_connections or
\* process_database of CompressRebuildAnalyze.py returned False
DriverFailed ==
    \E k \in DOMAIN loc.returned :
        IF loc.script = "ManageConnections"
        THEN ~ loc.returned[k].success
        ELSE loc.returned[k] = Returned(FALSE)

\* (success, output) the orchestrator gets for the step from the script's exit
StepOutcome ==
    IF loc.script = "ManageConnections"
    THEN run_module(ReturncodeOutcome(mret.code))
    ELSE run_script(ReturncodeOutcome(mret.code))

\* C23: when a critical step's script ends after its driver operation failed
\* for a database (set_accept_connections returned False, or process_database
\* of CompressRebuildAnalyze.py returned False), the orchestrator takes the
\* step for failed.
C23_DriverFailureFailsStep ==
    RanAsCriticalStep /\ DriverFailed => ~ StepOutcome[1]

\* the operations called on the k-th connection file so far, in call order
CallsOn(k) == SelectSeq(trace, LAMBDA c : c.db = loc.sde_files[k])

AllOk(cs) == \A j \in DOMAIN cs : cs[j].outcome = "ok"

\* C25: process_database of CompressRebuildAnalyze.py, in either copy, calls
\* analyze, compress, rebuild, analyze in this order on a database, calls
\* nothing after the first operation that raises and then returns False, and
\* returns True exactly when all four operations completed.
C25_OperationsInOrder ==
    loc.script = "CompressRebuildAnalyze" =>
        \A k \in DOMAIN loc.sde_files :
            LET cs == CallsOn(k)
                expected == << "analyze", "compress", "rebuild", "analyze" >>
            IN  /\ Len(cs) <= Len(expected)
                /\ \A j \in DOMAIN cs :
                       /\ cs[j].op = expected[j]
                       /\ j < Len(cs) => cs[j].outcome = "ok"
                /\ IF k \in DOMAIN loc.returned
                   THEN /\ cs # << >>
                        /\ loc.returned[k].kind = "return"
                        /\ loc.returned[k].value = (Len(cs) = Len(expected) /\ AllOk(cs))
                        /\ ~ loc.returned[k].value => cs[Len(cs)].outcome # "ok"
                   ELSE /\ AllOk(cs)
                        /\ Len(cs) < Len(expected)
                        /\ k # loc.i => cs = << >>

\* the copy of database_maintenance stopped on the first database when
\* rebuild raised, and completed the four operations on the second
C25_Witness ==
    /\ loc.script = "CompressRebuildAnalyze"
    /\ loc.copy = "module"
    /\ loc.returned = << Returned(FALSE), Returned(TRUE) >>
    /\ Len(CallsOn(1)) = 3
    /\ CallsOn(1)[3].outcome = "Exception"
    /\ Len(CallsOn(2)) = 4
    /\ mpc = "exited"

\* a process that is running goes on running: a call returns or raises, and
\* time.sleep(check_interval) returns
SpecStepScriptsFair == SpecStepScripts /\ WF_vars(NextStepScripts)

\* block_and_wait is at its loop / timeout_seconds of the call under way
Waiting == mpc = "conn_wait"

timeout_seconds == loc.timeout_minutes * 60

\* the dict process_database has just returned, in a step that returns one
LastReturned == loc'.returned[Len(loc'.returned)]

\* C26: block_and_wait always terminates.  When blocking fails it returns
\* success False (connections_remaining -1) without entering the polling loop;
\* otherwise every poll either ends the call or adds 10 to elapsed, which
\* stays below timeout_minutes * 60 while the loop polls; success True is
\* returned only for a count of 0 or 1 polled before the timeout, success
\* False once the timeout is reached, and a failed count (-1) is never taken
\* for a drained database.
C26_BlockAndWaitTerminates ==
    /\ [](loc.script = "ManageConnections" =>
             /\ Waiting => /\ loc.action = "block_and_wait"
                           /\ loc.elapsed % 10 = 0
                           /\ loc.elapsed >= 0
                           /\ loc.elapsed <= timeout_seconds
             /\ \A k \in DOMAIN loc.returned :
                    loc.returned[k].action = "block_and_wait" /\ loc.returned[k].success
                        => loc.returned[k].connections_remaining \in {0, 1})
    /\ [][/\ mpc = "conn_main" /\ loc.action = "block_and_wait" /\ trace' # trace
             => IF trace'[Len(trace')].outcome = "ok"
                THEN Waiting' /\ loc'.elapsed = 0 /\ loc'.returned = loc.returned
                ELSE /\ ~ Waiting'
                     /\ mpc' = "conn_main"
                            => /\ Len(loc'.returned) = Len(loc.returned) + 1
                               /\ ~ LastReturned.success
                               /\ LastReturned.connections_remaining = -1
          /\ Waiting
             => \/ /\ Waiting'
                   /\ loc.elapsed < timeout_seconds
                   /\ loc'.elapsed = loc.elapsed + 10
                   /\ loc'.returned = loc.returned
                \/ /\ mpc' = "conn_main"
                   /\ Len(loc'.returned) = Len(loc.returned) + 1
                   /\ LastReturned.success = (loc.elapsed < timeout_seconds)
                \/ mpc' = "exited" /\ mret' = Exited(1)]_vars
    /\ (Waiting ~> ~ Waiting)

\* on the first database a poll counted one connection; on the second every
\* poll up to the timeout counted two, and so did the count after the loop
C26_Witness ==
    /\ mpc = "exited"
    /\ loc.script = "ManageConnections"
    /\ loc.action = "block_and_wait"
    /\ loc.timeout_minutes = 1
    /\ loc.elapsed = 60
    /\ Len(loc.returned) = 2
    /\ loc.returned[1].success
    /\ loc.returned[1].connections_remaining = 1
    /\ ~ loc.returned[2].success
    /\ loc.returned[2].connections_remaining = 2

----------------------------------------------------------------------------
(* Properties of process_feature_class (SpecRepair) *)

\* repair_geometry_versioned has just returned
VersionedRepairReturned == mpc = "rep_returned" /\ loc.is_versioned

\* every stopEditing(save_changes=True) called so far came right after
\* RepairGeometry_management and stopOperation had both returned
SavedOnlyAfterRepair ==
    \A j \in DOMAIN trace :
        trace[j].op = "stopEditing" /\ trace[j].arg
            => /\ j > 2
               /\ trace[j - 2].op = "RepairGeometry" /\ trace[j - 2].outcome = "ok"
               /\ trace[j - 1].op = "stopOperation" /\ trace[j - 1].outcome = "ok"

\* the value returned tells whether the session was saved
SavedIffSuccess ==
    VersionedRepairReturned => (loc.rv <=> loc.editor \in world.saved)

\* C27 as stated: the session is saved only after RepairGeometry succeeded,
\* never on a failure path, and when repair_geometry_versioned returns no
\* edit session of its editor is open.
C27_NoSessionLeftOpen ==
    /\ SavedOnlyAfterRepair
    /\ SavedIffSuccess
    /\ VersionedRepairReturned => loc.editor \notin world.open

\* C27, amended: the session is saved only after RepairGeometry succeeded and
\* never on a failure path; when repair_geometry_versioned returns, the
\* session of its editor is closed unless the function returns False and the
\* last call made, a stopEditing(save_changes=False), raised.
C27_SessionClosedUnlessStopFails ==
    /\ SavedOnlyAfterRepair
    /\ SavedIffSuccess
    /\ VersionedRepairReturned /\ loc.editor \in world.open
          => /\ ~ loc.rv
             /\ trace[Len(trace)].op = "stopEditing"
             /\ ~ trace[Len(trace)].arg
             /\ trace[Len(trace)].outcome # "ok"

\* RepairGeometry raised arcpy.ExecuteError inside the edit session, and the
\* session was closed without saving before the function returned False
C27_Witness ==
    /\ VersionedRepairReturned
    /\ ~ loc.rv
    /\ loc.editor # 0
    /\ loc.editor \notin world.open
    /\ loc.editor \notin world.saved
    /\ \E j \in DOMAIN trace :
          trace[j].op = "RepairGeometry" /\ trace[j].outcome = "ExecuteError"
    /\ trace[Len(trace)] = [op |-> "stopEditing", db |-> loc.database,
                            arg |-> FALSE, outcome |-> "ok"]

\* the calls that belong to a repair
RepairCalls == {"RepairGeometry", "startOperation", "stopOperation", "abortOperation"}

\* C30: process_feature_class invokes a repair only when auto_repair is
\* enabled and the check reported error_count > 0; with auto_repair disabled
\* no repair call is made and no edit session is saved, whatever the check
\* reported.
C30_RepairOnlyWhenEnabled ==
    /\ \A j \in DOMAIN trace :
           trace[j].op \in RepairCalls => loc.auto_repair /\ loc.result.error_count > 0
    /\ mpc \in {"rep_enter", "rep_plain"} => loc.auto_repair /\ loc.result.error_count > 0
    /\ ~ loc.auto_repair
          => /\ world.saved = {}
             /\ \A j \in DOMAIN trace :
                    /\ trace[j].op \notin RepairCalls
                    /\ trace[j].op = "stopEditing" => ~ trace[j].arg

\* AUTO_REPAIR=1 does not enable the repair: a versioned feature class with
\* two geometry errors was checked in an edit session and returned as it is
C30_Witness ==
    /\ mpc = "returned"
    /\ loc.AUTO_REPAIR = <<"1">>
    /\ ~ loc.auto_repair
    /\ loc.is_versioned
    /\ world.created = 1
    /\ mret = Returned([checked |-> TRUE, error_count |-> 2, is_versioned |-> TRUE])

----------------------------------------------------------------------------
(* Properties of disconnect_all (SpecDisconnect) *)

\* the spellings among UserNames that read sde, admin or dbo when the case of
\* the letters is ignored
AdminSpellings == {<<"s", "d", "e">>, <<"D", "B", "O">>, <<"A", "d", "m", "i", "n">>}

\* the IDs handed to arcpy.DisconnectUser so far
DisconnectedIds == {trace[j].arg : j \in {k \in DOMAIN trace : trace[k].op = "DisconnectUser"}}

\* C28: with exclude_admin, disconnect_all never calls DisconnectUser for a
\* user named sde, admin or dbo in any case of the letters, and the counts it
\* returns add up to the number of users listed: disconnected + failed +
\* excluded = len(users).
C28_AdminsKeptCountsAddUp ==
    loc.script = "DisconnectUsers" =>
        /\ loc.exclude_admin
              => \A id \in DisconnectedIds : loc.users[id].Name \notin AdminSpellings
        /\ mpc = "returned"
              => /\ mret.value.disconnected + mret.value.failed + mret.value.excluded
                        = Len(loc.users)
                 /\ loc.exclude_admin
                       => mret.value.excluded
                             = Cardinality({i \in DOMAIN loc.users :
                                               loc.users[i].Name \in AdminSpellings})

\* DBO was excluded, one user was disconnected and one disconnect failed
C28_Witness ==
    /\ loc.script = "DisconnectUsers"
    /\ mpc = "returned"
    /\ loc.exclude_admin
    /\ Len(loc.users) = 3
    /\ \E i \in DOMAIN loc.users : loc.users[i].Name = <<"D", "B", "O">>
    /\ mret = Returned([disconnected |-> 1, failed |-> 1, excluded |-> 1])

----------------------------------------------------------------------------
(* Properties of order_versions_for_deletion (SpecOrder) *)

\* the names of vs that are the parent of a version named in S
ParentsIn(vs, S) == {vs[i].parent : i \in {j \in DOMAIN vs : vs[j].name \in S}} \cap NamesOf(vs)

\* the names reached from S by 1..k parent links inside vs
RECURSIVE Ancestors(_, _, _)
Ancestors(vs, S, k) ==
    IF k = 0 \/ S = {} THEN {}
    ELSE ParentsIn(vs, S) \cup Ancestors(vs, ParentsIn(vs, S), k - 1)

Acyclic(vs) == \A n \in NamesOf(vs) : n \notin Ancestors(vs, {n}, Len(vs))

UniqueNames(vs) == \A i, j \in DOMAIN vs : vs[i].name = vs[j].name => i = j

\* C1: for an input with unique names and an acyclic parent relation, every
\* version of the returned list stands before its parent: if B.parent = A.name
\* then B's index is smaller than A's.
C1_ChildrenBeforeParents ==
    (pc = "order_ret" /\ UniqueNames(stale) /\ Acyclic(stale)) =>
        \A a, b \in DOMAIN ret.items : ret.items[b].parent = ret.items[a].name => b < a

\* a chain grandparent <- parent <- child was ordered, the input listing the
\* grandparent first and the child last
C1_Witness ==
    /\ pc = "order_ret"
    /\ Acyclic(stale)
    /\ Len(stale) = 3
    /\ stale[2].parent = stale[1].name
    /\ stale[3].parent = stale[2].name
    /\ Len(ret.items) = 3

\* C7: for every input with unique names, cycles and self-parents included,
\* the returned list is a permutation of the input: same length, and every
\* input version occurs in it exactly once.
C7_Permutation ==
    (pc = "order_ret" /\ UniqueNames(stale)) =>
        /\ Len(ret.items) = Len(stale)
        /\ \A i \in DOMAIN stale : Cardinality({j \in DOMAIN ret.items : ret.items[j] = stale[i]}) = 1
        /\ \A j \in DOMAIN ret.items : \E i \in DOMAIN stale : stale[i] = ret.items[j]

\* a version that is its own parent was ordered (by the fallback) after a round
\* that had taken a leaf
C7_Witness ==
    /\ pc = "order_ret"
    /\ Len(stale) = 3
    /\ \E i \in DOMAIN stale : stale[i].parent = stale[i].name
    /\ ~ Acyclic(stale)
    /\ remaining # {}
    /\ Cardinality(remaining) < Len(stale)
    /\ Len(ret.items) = 3

\* C8: the loop terminates.  Every round of the loop with a non-empty working
\* set either removes at least one name from it, or (no leaf found) appends
\* exactly the remaining versions and leaves the loop; and every call returns.
C8_RoundProgress ==
    [][(pc = "order_loop" /\ remaining # {}) =>
          \/ /\ leaves(stale, remaining) # {}
             /\ remaining' # remaining
             /\ remaining' \subseteq remaining
             /\ pc' = "order_loop"
          \/ /\ leaves(stale, remaining) = {}
             /\ pc' = "order_ret"
             /\ Len(ordered') = Len(ordered) + Cardinality(remaining)
             /\ {ordered'[i].name : i \in (Len(ordered) + 1)..Len(ordered')} = remaining
             /\ SubSeq(ordered', 1, Len(ordered)) = ordered]_vars

C8_Terminates == C8_RoundProgress /\ <>(pc = "order_ret")

\* the fallback was taken on a cycle after a round that had removed a leaf
C8_Witness ==
    /\ pc = "order_ret"
    /\ Cardinality(remaining) = 2
    /\ Len(ordered) = 3
    /\ \A i \in DOMAIN stale : stale[i].parent # stale[i].name

SpecOrderFair == SpecOrder /\ WF_vars(NextOrder)

\* the versions of vs whose names are in S, in the order of vs
InInputOrder(vs, S) == SelectSeq(vs, LAMBDA v : v.name \in S)

\* the rounds of the sort with the leaves of every round, and the versions
\* left to the fallback, taken in the order of the input list
RECURSIVE RoundsInInputOrder(_, _)
RoundsInInputOrder(vs, rem) ==
    IF rem = {} THEN << >>
    ELSE IF leaves(vs, rem) = {} THEN InInputOrder(vs, rem)
    ELSE InInputOrder(vs, leaves(vs, rem)) \o RoundsInInputOrder(vs, rem \ leaves(vs, rem))

\* C18: the sequence returned by order_versions_for_deletion is determined by
\* the input list: it is the sequence of the rounds in which the versions
\* eligible in the same round stand in their relative input order.
C18_InputOrderWithinRound ==
    pc = "order_ret" => ret.items = RoundsInInputOrder(stale, NamesOf(stale))

----------------------------------------------------------------------------
(* Properties of process_database (SpecDelete) *)

\* the stale candidates: what filter_stale_versions selects from the listing
Candidates == NamesOf(filter_stale_versions(versions, max_age_days, exclude_patterns))

\* the deletion plan exists: the protection loop is over
PlanBuilt == pc \in {"order_call", "order_loop", "order_ret", "delete", "done"}

\* has a listed child that is not a stale candidate
HasLiveChild(p) ==
    \E i \in DOMAIN versions : versions[i].parent = p /\ versions[i].name \notin Candidates

Called == {calls[i][1] : i \in DOMAIN calls}

\* C2: a stale candidate P with a listed child outside the candidate set is
\* never in the deletion plan, and delete_version is never called for it.
C2_LiveChildProtects ==
    \A p \in Candidates :
        HasLiveChild(p) => /\ p \notin Called
                           /\ PlanBuilt => p \notin NamesOf(stale)

\* a run that deleted something, while a candidate with a live child was spared
C2_Witness ==
    /\ pc = "done"
    /\ calls # << >>
    /\ \E p \in Candidates : HasLiveChild(p) /\ p \notin Called

\* C3: in the final plan no version is the parent of a listed version outside
\* the plan (protection applied transitively).
C3_TransitiveProtection ==
    pc \in {"delete", "done"} =>
        \A p \in NamesOf(stale) :
            \A i \in DOMAIN versions :
                versions[i].parent = p => versions[i].name \in NamesOf(stale)

\* the listed version with that name
VersionNamed(n) == versions[CHOOSE i \in DOMAIN versions : versions[i].name = n]

\* C10: for two versions A, B both deleted in a run with B.parent = A.name, the
\* delete_version call for B is issued strictly before the call for A.
C10_ChildDeletedFirst ==
    \A a, b \in DOMAIN calls :
        (/\ calls[a][1] # calls[b][1]
         /\ calls[a][2]
         /\ calls[b][2]
         /\ VersionNamed(calls[b][1]).parent = calls[a][1]) => b < a

\* the position of the version with this name in the listing
ListedAt(n) == CHOOSE i \in DOMAIN versions : versions[i].name = n

\* C21: planning gives the same set every time it is run on the same listing
\* and the same candidates: whatever order the set iteration takes, the names
\* returned by order_versions_for_deletion, and the names of the plan that
\* process_database deletes from, are the candidates without a live child.
C21_PlanSetDetermined ==
    LET planned == {p \in Candidates : ~ HasLiveChild(p)}
    IN  /\ (pc = "order_ret" /\ ret # NoValue) =>
              /\ {ret.items[i].name : i \in DOMAIN ret.items} = planned
              /\ Len(ret.items) = Cardinality(planned)
        /\ pc = "delete" => NamesOf(stale) = planned /\ Len(stale) = Cardinality(planned)

\* of three listed versions two are candidates, neither the parent of the
\* other, and their plan came out in the reverse of the listing order
C21_Witness ==
    /\ pc = "delete"
    /\ Len(versions) = 3
    /\ Len(stale) = 2
    /\ Cardinality(Candidates) = 2
    /\ ListedAt(stale[1].name) > ListedAt(stale[2].name)
    /\ stale[1].parent # stale[2].name
    /\ stale[2].parent # stale[1].name

\* the row of dbo.SDE_versions that is the parent of this row
ParentRow(row) ==
    db[CHOOSE k \in DOMAIN db : db[k].name = row.parent_name /\ db[k].owner = row.parent_owner]

\* C24: in the SQL listing, the 'parent' of every row whose parent is a
\* version other than DEFAULT equals the 'name' that get_version_details
\* builds for the parent's own row, also when the owners differ.
C24_ParentIsCanonicalName ==
    (pc # "start" /\ versions = get_version_details(db)) =>
        \A i \in DOMAIN versions :
            LET row == SqlListing(db)[i]
            IN  (row.parent_name # None /\ row.parent_name # DEFAULT) =>
                    versions[i].parent = VersionOfRow(ParentRow(row)).name

\* C29: delete_version is attempted once for every version of the plan, in
\* plan order, whatever the results of the earlier attempts: while the loop
\* runs the calls made are the head of the plan, and when process_database
\* returns after it there is exactly one call per planned version and
\* deleted + skipped is the length of the plan, deleted counting the calls
\* that returned True.
C29_EveryPlannedVersionAttempted ==
    /\ pc = "delete" =>
          /\ Len(calls) + Len(todo) = Len(stale)
          /\ \A i \in DOMAIN calls : calls[i][1] = stale[i].name
    /\ (pc = "done" /\ calls # << >>) =>
          /\ Len(calls) = Len(stale)
          /\ \A i \in DOMAIN calls : calls[i][1] = stale[i].name
          /\ ret.deleted = Cardinality({i \in DOMAIN calls : calls[i][2]})
          /\ ret.deleted + ret.skipped = Len(stale)

\* process_database returned after a plan of three versions of which the
\* first deletion failed and the two later ones were attempted and succeeded
C29_Witness ==
    /\ pc = "done"
    /\ Len(stale) = 3
    /\ Len(calls) = 3
    /\ ~ calls[1][2]
    /\ calls[2][2]
    /\ calls[3][2]
    /\ ret.deleted = 2
    /\ ret.skipped = 1

----------------------------------------------------------------------------
(* Properties of run_maintenance_sequence (SpecRun) *)

\* the index in SCRIPT_SEQUENCE of the step with this name
StepIndexOf ==
    [n \in StepNames |-> CHOOSE k \in DOMAIN SCRIPT_SEQUENCE : SCRIPT_SEQUENCE[k].name = n]

StepIndex(name) == StepIndexOf[name]

\* the step with this name is marked critical in SCRIPT_SEQUENCE
MarkedCritical(name) ==
    "critical" \in DOMAIN SCRIPT_SEQUENCE[StepIndex(name)] /\ SCRIPT_SEQUENCE[StepIndex(name)].critical

Recorded == {results.steps[i].name : i \in DOMAIN results.steps}

FailedAt(i) == results.steps[i].status = "failed"

\* C4: once a critical step has been executed and has failed, critical_failure
\* is true, success is false, and the failed step stays the last one recorded
\* and the last one invoked.
C4_CriticalFailureStops ==
    \A i \in DOMAIN results.steps :
        (FailedAt(i) /\ MarkedCritical(results.steps[i].name)) =>
            /\ results.critical_failure
            /\ ~ results.success
            /\ i = Len(results.steps)
            /\ launched # << >>
            /\ launched[Len(launched)] = results.steps[i].name

\* a full run returned after Compress/Rebuild/Analyze, the fifth step, failed
C4_Witness ==
    /\ opc = "returned"
    /\ steps = NoneArg
    /\ Len(results.steps) = 5
    /\ results.steps[5].name = "Compress/Rebuild/Analyze"
    /\ results.steps[5].status = "failed"
    /\ results.critical_failure
    /\ results.end_time = "set"

\* C5: the failure of a non-critical step does not halt the run.  success is
\* false from then on; critical_failure is true only if a critical step failed
\* later; and when the run has returned, either a critical step failed later
\* or every selected step behind the failed one is recorded.
C5_NonCriticalFailureContinues ==
    \A i \in DOMAIN results.steps :
        (FailedAt(i) /\ ~ MarkedCritical(results.steps[i].name)) =>
            LET LaterCriticalFailure ==
                    \E j \in DOMAIN results.steps :
                        j > i /\ FailedAt(j) /\ MarkedCritical(results.steps[j].name)
            IN  /\ ~ results.success
                /\ results.critical_failure => LaterCriticalFailure
                /\ opc = "returned" =>
                      \/ LaterCriticalFailure
                      \/ \A k \in DOMAIN SCRIPT_SEQUENCE :
                            (k > StepIndex(results.steps[i].name) /\ Selected(SCRIPT_SEQUENCE[k].name))
                                => SCRIPT_SEQUENCE[k].name \in Recorded

\* Reconcile/Post Versions failed in a full run, Compress/Rebuild/Analyze ran
\* after it, and the run went through all twelve steps
C5_Witness ==
    /\ opc = "returned"
    /\ steps = NoneArg
    /\ Len(results.steps) = 12
    /\ results.steps[3].name = "Reconcile/Post Versions"
    /\ results.steps[3].status = "failed"
    /\ results.steps[5].status = "success"
    /\ "Compress/Rebuild/Analyze" \in Range(launched)
    /\ ~ results.success
    /\ ~ results.critical_failure

\* C6: success is false exactly when a recorded StepResult has status failed.
C6_SuccessIffNoFailure ==
    opc \in {"loop", "finish", "returned"} =>
        (~ results.success <=> \E i \in DOMAIN results.steps : FailedAt(i))

\* a run returned with a manually skipped step, a step skipped for missing
\* configuration, no failure, and success still true
C6_Witness ==
    /\ opc = "returned"
    /\ results.success
    /\ \E i, j \in DOMAIN results.steps :
          /\ results.steps[i].status = "skipped" /\ "reason" \notin DOMAIN results.steps[i]
          /\ results.steps[j].status = "skipped" /\ "reason" \in DOMAIN results.steps[j]

\* the names of the StepResults of the steps that were executed, in report order
ExecutedNames ==
    LET executed == SelectSeq(results.steps, LAMBDA r : r.status # "skipped")
    IN  [i \in DOMAIN executed |-> executed[i].name]

\* C11: the steps are processed one at a time in the order of SCRIPT_SEQUENCE.
\* Every recorded StepResult is of a step later in the pipeline than the one
\* recorded before it (so the report is a subsequence of the pipeline order
\* and each name is recorded at most once), and the invocations made so far
\* are exactly the executed steps already recorded, in the same order:
\* whenever a step is invoked, the invocation of every earlier executed step
\* has returned or timed out and its result is in the report.
C11_OneAtATime ==
    /\ \A i \in 1..(Len(results.steps) - 1) :
          StepIndex(results.steps[i].name) < StepIndex(results.steps[i + 1].name)
    /\ launched = ExecutedNames

\* a full run returned with all twelve steps recorded, eleven of them invoked
\* one after the other, one of these timed out, and one skipped
C11_Witness ==
    /\ opc = "returned"
    /\ steps = NoneArg
    /\ Len(results.steps) = 12
    /\ Len(launched) = 11
    /\ \E i \in DOMAIN results.steps :
          /\ results.steps[i].status = "failed"
          /\ results.steps[i].output_preview = "Script timed out after 1 hour"
          /\ i < 12
          /\ results.steps[i + 1].name = launched[Len(SelectSeq(SubSeq(results.steps, 1, i + 1),
                                                        LAMBDA r : r.status # "skipped"))]

\* C12: when a selection is provided (steps is not None), a step whose name is
\* not in the selection is neither invoked nor recorded, whatever the
\* selection, the empty one included.
C12_UnselectedUntouched ==
    steps.kind = "list" =>
        \A n \in StepNames \ steps.names : n \notin Range(launched) /\ n \notin Recorded

\* the step requires configuration variables, and one of them is unset or empty
ConfigMissing(step) ==
    /\ "requires_config" \in DOMAIN step
    /\ \E i \in DOMAIN step.requires_config : env[step.requires_config[i]] \in {None, EmptyStr}

\* C13: when the loop is at a selected step, not manually skipped, of which a
\* required configuration variable is unset or empty, the step is not
\* invoked; one StepResult is appended for it, with status skipped and reason
\* "missing configuration"; success and critical_failure keep their values,
\* whether or not the step is marked critical; and the loop goes on with the
\* next step.
C13_MissingConfigSkips ==
    [][(InLoop /\ Selected(CurStep.name) /\ ~ ManuallySkipped(CurStep.name) /\ ConfigMissing(CurStep)) =>
          /\ launched' = launched
          /\ Len(results'.steps) = Len(results.steps) + 1
          /\ SubSeq(results'.steps, 1, Len(results.steps)) = results.steps
          /\ LET r == results'.steps[Len(results'.steps)]
             IN  /\ r.name = CurStep.name
                 /\ r.status = "skipped"
                 /\ "reason" \in DOMAIN r /\ r.reason = "missing configuration"
          /\ results'.success = results.success
          /\ results'.critical_failure = results.critical_failure
          /\ idx' = idx + 1
          /\ opc' = "loop"]_vars

\* Server Health Check was skipped because a variable it requires is empty,
\* nothing was invoked for it, success is still true, and Portal Backup, the
\* step behind it, was then run
C13_Witness ==
    /\ \E v \in ConfigVars : env[v] = EmptyStr
    /\ \E i \in DOMAIN results.steps :
          /\ results.steps[i].name = "Server Health Check"
          /\ results.steps[i].status = "skipped"
          /\ "reason" \in DOMAIN results.steps[i]
          /\ i < Len(results.steps)
          /\ results.steps[i + 1].name = "Portal Backup"
          /\ results.steps[i + 1].status = "success"
    /\ "Server Health Check" \notin Range(launched)
    /\ results.success

\* C14: a selected step whose name is in skip_steps is never invoked, and once
\* the loop is past it the report holds exactly one StepResult for it, with
\* status skipped and reason "manually skipped".
C14_ManualSkipRecorded ==
    \A k \in DOMAIN SCRIPT_SEQUENCE :
        LET n == SCRIPT_SEQUENCE[k].name
        IN  (Selected(n) /\ ManuallySkipped(n)) =>
                /\ n \notin Range(launched)
                /\ (opc = "loop" /\ idx > k) =>
                      /\ Cardinality({i \in DOMAIN results.steps : results.steps[i].name = n}) = 1
                      /\ \A i \in DOMAIN results.steps :
                            results.steps[i].name = n =>
                                /\ results.steps[i].status = "skipped"
                                /\ "reason" \in DOMAIN results.steps[i]
                                /\ results.steps[i].reason = "manually skipped"

\* the outputs run_module and run_script hand back from their except clauses
\* and the one of a step with neither module nor script
FailureOutputs == {"Script timed out after 1 hour", "str(e)", "No module or script specified"}

\* C15: no step outcome makes run_maintenance_sequence raise.  Every
\* invocation leaves a StepResult with status success or failed, a timeout or
\* an exception while launching leaves one with status failed, and success is
\* false as soon as a step has failed.  Until it has returned the function
\* can always take a next step, in the loop every step moves the loop
\* forward or leaves it, and the step after the loop, a loop left by a
\* critical failure too, sets end_time and returns the report.
C15_NeverRaises ==
    /\ [](/\ Len(launched) = Len(ExecutedNames)
          /\ \A i \in DOMAIN results.steps :
                /\ results.steps[i].status \in {"success", "failed", "skipped"}
                /\ (results.steps[i].status # "skipped"
                        /\ results.steps[i].output_preview \in FailureOutputs)
                      => results.steps[i].status = "failed"
                /\ results.steps[i].status = "failed" => ~ results.success
          /\ opc \in {"loop", "finish"} => ENABLED NextRun)
    /\ [][/\ opc = "loop" => (idx' > idx /\ opc' = "loop") \/ opc' = "finish"
          /\ opc = "finish" => opc' = "returned" /\ results'.end_time = "set"]_vars

\* a run returned, with end_time set, after an exception while launching the
\* critical step Block Connections stopped it
C15_Witness ==
    /\ opc = "returned"
    /\ results.end_time = "set"
    /\ results.critical_failure
    /\ Len(results.steps) = 1
    /\ results.steps[1].name = "Block Connections"
    /\ results.steps[1].status = "failed"
    /\ results.steps[1].output_preview = "str(e)"

\* the StepResult appended by the step from this state to the next
NewResult == results'.steps[Len(results'.steps)]

\* what the loop does with a step that returned a non-zero exit code, but
\* for the recorded output
AfterReturnedFailure(output) ==
    LET appended == AppendStep(results, [name |-> CurStep.name, status |-> "failed",
                                         duration |-> NewResult.duration,
                                         output_preview |-> output])
    IN  IF MarkedCritical(CurStep.name)
        THEN /\ results' = [appended EXCEPT !.success = FALSE, !.critical_failure = TRUE]
             /\ opc' = "finish"
        ELSE /\ results' = [appended EXCEPT !.success = FALSE]
             /\ opc' = "loop"
             /\ idx' = idx + 1

\* C16: a step whose invocation timed out is handled as a step that returned
\* failure: its StepResult has status failed, success becomes false, and the
\* loop is left, with critical_failure set, if and only if the step is
\* critical; the recorded output is the timeout message.
C16_TimeoutIsFailure ==
    [][(/\ InLoop
        /\ Len(results'.steps) = Len(results.steps) + 1
        /\ NewResult.status # "skipped"
        /\ NewResult.output_preview = "Script timed out after 1 hour")
         => /\ NewResult.status = "failed"
            /\ ~ results'.success
            /\ (opc' = "finish") <=> MarkedCritical(CurStep.name)
            /\ AfterReturnedFailure("Script timed out after 1 hour")]_vars

\* a full run returned in which Reconcile/Post Versions, not critical, timed
\* out and the loop went on, and Allow Connections, critical, timed out and
\* stopped the run before the last two steps
C16_Witness ==
    /\ opc = "returned"
    /\ steps = NoneArg
    /\ Len(results.steps) = 10
    /\ results.steps[3].status = "failed"
    /\ results.steps[3].output_preview = "Script timed out after 1 hour"
    /\ results.steps[10].name = "Allow Connections"
    /\ results.steps[10].status = "failed"
    /\ results.steps[10].output_preview = "Script timed out after 1 hour"
    /\ results.critical_failure

\* the selected steps that were neither invoked nor recorded
Untouched == {n \in StepNames : Selected(n) /\ n \notin Recorded /\ n \notin Range(launched)}

\* C17, as stated: a returned report with critical_failure true means that
\* some selected step of the pipeline was neither invoked nor recorded.
C17_CriticalFailureLeavesSteps ==
    (opc = "returned" /\ results.critical_failure) => Untouched # {}

\* C17, amended: in a returned report with critical_failure true the last
\* StepResult is that of a critical step that failed, and every selected step
\* behind that step in the pipeline was neither invoked nor recorded.
C17_CriticalFailureCutsTail ==
    (opc = "returned" /\ results.critical_failure) =>
        /\ results.steps # << >>
        /\ LET last == results.steps[Len(results.steps)]
           IN  /\ last.status = "failed"
               /\ MarkedCritical(last.name)
               /\ \A k \in DOMAIN SCRIPT_SEQUENCE :
                     (k > StepIndex(last.name) /\ Selected(SCRIPT_SEQUENCE[k].name))
                         => SCRIPT_SEQUENCE[k].name \in Untouched

\* the run of the selection ['Allow Connections'] returned with
\* critical_failure true: the one selected step was invoked, failed and is
\* recorded, and no selected step is left
C17_Witness ==
    /\ opc = "returned"
    /\ results.critical_failure
    /\ steps = ListArg({"Allow Connections"})
    /\ launched = << "Allow Connections" >>
    /\ Len(results.steps) = 1
    /\ Untouched = {}

\* C19: the summary tells whether the run stopped on a critical failure: the
\* text printed for the report differs from the text format_summary gives for
\* the same report with the other value of critical_failure.
C19_SummaryTellsCriticalFailure ==
    opc = "summarized" =>
        ret.text # format_summary([results EXCEPT !.critical_failure = ~ @])

\* the line the summary is to have for a StepResult: the glyph of its status,
\* its name, and its duration unless the step was skipped
LineWithDuration(step) ==
    LET glyph == CASE step.status = "success" -> "+"
                   [] step.status = "failed" -> "-"
                   [] step.status = "skipped" -> "o"
        shown == IF step.status # "skipped"
                 THEN "(" \o FormatTenths(GetDuration(step)) \o "s)"
                 ELSE ""
    IN  "  [" \o glyph \o "] " \o step.name \o " " \o shown

\* C20: behind the header the summary has one line per StepResult, in report
\* order, with a glyph of its own for each of success, failed and skipped,
\* and with the duration on the line of every executed step, a duration of
\* 0.0 too, and on no line of a skipped step.
C20_OneLinePerStepWithDuration ==
    opc = "summarized" =>
        ret.text = Join(HeaderLines(results) \o
                            [i \in DOMAIN results.steps |-> LineWithDuration(results.steps[i])],
                        "\n")

\* C22: a run of the whole pipeline, without selection and without manual
\* skips, in which Block Connections was executed with success has invoked
\* Allow Connections by the time it returns.
C22_AllowAfterBlock ==
    (/\ opc = "returned"
     /\ steps = NoneArg
     /\ skip_steps = NoneArg
     /\ \E i \in DOMAIN results.steps :
           results.steps[i].name = "Block Connections" /\ results.steps[i].status = "success")
        => "Allow Connections" \in Range(launched)

----------------------------------------------------------------------------
(* Properties of filter_stale_versions (SpecFilter) *)

\* the same letter, whatever the case
SameLetter(c, d) == c = d \/ {c, d} \in {{"a", "A"}, {"b", "B"}}

\* p occurs in s at some offset, letter by letter, cases ignored
ContainsIgnoringCase(s, p) ==
    \E k \in 0..(Len(s) - Len(p)) : \A j \in 1..Len(p) : SameLetter(s[k + j], p[j])

\* old enough, and no exclusion pattern occurs in the name
Wanted(v) ==
    /\ v.age_days >= max_age_days
    /\ \A i \in DOMAIN exclude_patterns : ~ ContainsIgnoringCase(v.name, exclude_patterns[i])

WantedIndexes == {i \in DOMAIN versions : Wanted(versions[i])}

\* the k-th wanted index of the input
NthWanted(k) ==
    CHOOSE i \in WantedIndexes : Cardinality({j \in WantedIndexes : j < i}) = k - 1

\* C9: the returned list holds exactly the input versions that are old enough
\* (age_days >= max_age_days) and whose name contains none of the patterns,
\* cases ignored, each once and in input order; with max_age_days = 0 and no
\* pattern matching, it is the whole input.
C9_FilterExact ==
    pc = "filter_ret" =>
        /\ Len(ret.items) = Cardinality(WantedIndexes)
        /\ \A k \in DOMAIN ret.items : ret.items[k] = versions[NthWanted(k)]
        /\ (max_age_days = 0 /\ \A i \in DOMAIN versions, j \in DOMAIN exclude_patterns :
                                    ~ ContainsIgnoringCase(versions[i].name, exclude_patterns[j]))
              => ret.items = versions

\* of two versions old enough, the first was excluded by a pattern that
\* occurs in its name only when cases are ignored, and the second was kept
C9_Witness ==
    /\ pc = "filter_ret"
    /\ Len(versions) = 2
    /\ max_age_days = 1
    /\ versions[1].age_days = 1
    /\ versions[2].age_days = 1
    /\ \E i \in DOMAIN exclude_patterns :
          /\ ContainsIgnoringCase(versions[1].name, exclude_patterns[i])
          /\ ~ StrIn(exclude_patterns[i], versions[1].name)
    /\ ret.items = <<versions[2]>>

====
